---- MODULE Spec2Model ----
(***************************************************************************)
(* Atlas / Hindsight: the snapshot store (SnapshotManager), the file       *)
(* watcher that feeds it (FileWatcher) and the backup-then-restore         *)
(* protocol (SnapshotManager.restoreSnapshot).                             *)
(*                                                                         *)
(* Text that the program inspects character by character (identifiers,    *)
(* file names of the snapshots directory, ignore patterns) is a sequence   *)
(* of character codes, so that prefixes, suffixes, substrings and the      *)
(* code-unit order of Array.prototype.sort are computed, not assumed.      *)
(* Workspace paths and file contents are atoms; Chars gives a path's       *)
(* spelling.                                                               *)
(***************************************************************************)
EXTENDS Integers, Sequences, FiniteSets, TLC

VARIABLES
    files,       \* workspace: path -> content, or NoFile
    dirs,        \* workspace: the sub-directories that exist, the storage root
                 \* and its snapshots directory among them
    faults,      \* what the file system refuses (see FaultPlans)
    snapDir,     \* .hindsight/snapshots: file name -> stored record, or Garbage
    now,         \* the wall clock, in seconds since the epoch
    tz,          \* the host's time-zone offset, minutes east of UTC
    watching,    \* what the started FileWatcher is told of: "files" of the workspace,
                 \* "records" of the snapshots directory; nothing when it is stopped
    events,      \* file-change events the watcher has not delivered yet
    filesChanged,\* FileWatcher.filesChanged
    cap,         \* the createSnapshot task in flight
    cap2,        \* a second createSnapshot task, started while cap is in flight
    rst,         \* the restoreSnapshot task in flight
    issued,      \* history: <<instant, identifier>> -> 1 if generateSnapshotId
                 \* returned the identifier once at the instant, 2 if more often
    ops,         \* history: number of user commands and client calls so far
    ticks,       \* history: number of clock ticks so far
    api,         \* the call a client of SnapshotManager has made, and its result
    live,        \* history: the identifiers of the records persisted and not
                 \* deleted since
    webview,     \* the script of the timeline's webview: its variables, the messages
                 \* it has posted and the timeline it has rendered
    diffPanel,   \* DiffViewer.currentPanel: what it displays, and its showDiff calls
                 \* in flight
    extension    \* extension.ts: its module variables fileWatcher and snapshotManager

vars == <<files, dirs, faults, snapDir, now, tz, watching, events,
          filesChanged, cap, cap2, rst, issued, ops, ticks, api, live,
          webview, diffPanel, extension>>

----------------------------------------------------------------------------
(* Bounds of the exploration *)

\* user commands (saves, deletions, restore requests) and calls of a
\* client of SnapshotManager in one behaviour
MaxOps == 2
\* seconds the clock advances in one behaviour
MaxTicks == 2

----------------------------------------------------------------------------
(* Text *)

\* s.startsWith(pre)
StartsWith(s, pre) ==
    /\ Len(pre) <= Len(s)
    /\ SubSeq(s, 1, Len(pre)) = pre

\* s.endsWith(suf)
EndsWith(s, suf) ==
    /\ Len(suf) <= Len(s)
    /\ SubSeq(s, Len(s) - Len(suf) + 1, Len(s)) = suf

\* s.includes(pat)
Includes(s, pat) ==
    \E i \in 1..(Len(s) - Len(pat) + 1) : SubSeq(s, i, i + Len(pat) - 1) = pat

\* s.replace(pat, '') with a string pattern: the first occurrence only
ReplaceFirst(s, pat) ==
    IF ~Includes(s, pat) THEN s
    ELSE LET i == CHOOSE k \in 1..(Len(s) - Len(pat) + 1) :
                    /\ SubSeq(s, k, k + Len(pat) - 1) = pat
                    /\ \A j \in 1..(k - 1) : SubSeq(s, j, j + Len(pat) - 1) # pat
         IN  SubSeq(s, 1, i - 1) \o SubSeq(s, i + Len(pat), Len(s))

\* the order Array.prototype.sort() uses without a comparator: by code units,
\* a proper prefix first
StrLess(a, b) ==
    \/ /\ Len(a) < Len(b)
       /\ SubSeq(b, 1, Len(a)) = a
    \/ \E i \in 1..Len(a) :
          /\ i <= Len(b)
          /\ SubSeq(a, 1, i - 1) = SubSeq(b, 1, i - 1)
          /\ a[i] < b[i]

\* n written with w decimal digits (zero padded), as character codes
RECURSIVE Digits(_, _)
Digits(n, w) ==
    IF w = 0 THEN <<>> ELSE Append(Digits(n \div 10, w - 1), 48 + (n % 10))

JsonSuffix == <<46, 106, 115, 111, 110>>                  \* ".json"
BackupMarker == <<98, 97, 99, 107, 117, 112, 95>>          \* "backup_"
SnapshotPrefix == <<115, 110, 97, 112, 115, 104, 111, 116, 95>>  \* "snapshot_"
Underscore == <<95>>                                       \* "_"

----------------------------------------------------------------------------
(* The clock and generateSnapshotId *)

\* the instant the exploration starts at: 2023-10-21T04:59:59Z, one second
\* before midnight in a UTC-5 zone
StartInstant == 19651 * 86400 + 4 * 3600 + 59 * 60 + 59

\* host time zones explored: UTC, and UTC-05:00
TimeZones == {0, -300}

\* the civil date <<year, month, day>> of day number z (days since 1970-01-01)
CivilFromDays(z0) ==
    LET z   == z0 + 719468
        era == z \div 146097
        doe == z - era * 146097
        yoe == (doe - doe \div 1460 + doe \div 36524 - doe \div 146096) \div 365
        doy == doe - (365 * yoe + yoe \div 4 - yoe \div 100)
        mp  == (5 * doy + 2) \div 153
        d   == doy - (153 * mp + 2) \div 5 + 1
        m   == IF mp < 10 THEN mp + 3 ELSE mp - 9
        y   == yoe + era * 400 + (IF m <= 2 THEN 1 ELSE 0)
    IN  <<y, m, d>>

\* the day number of the civil date y0-m-d
DaysFromCivil(y0, m, d) ==
    LET y   == IF m <= 2 THEN y0 - 1 ELSE y0
        era == y \div 400
        yoe == y - era * 400
        doy == (153 * (IF m > 2 THEN m - 3 ELSE m + 9) + 2) \div 5 + d - 1
        doe == yoe * 365 + yoe \div 4 - yoe \div 100 + doy
    IN  era * 146097 + doe - 719468

\* the number a sequence of decimal digits spells
RECURSIVE Number(_)
Number(ds) ==
    IF ds = <<>> THEN 0
    ELSE 10 * Number(SubSeq(ds, 1, Len(ds) - 1)) + (ds[Len(ds)] - 48)

\* A Date is the pair <<seconds since the epoch, milliseconds of the second>>.
\* new Date() at second t of the clock, which advances in whole seconds
DateAt(t) == <<t, 0>>

\* an ISO text without the milliseconds of the Date
toISOStringWholeSeconds(date) ==
    LET t == date[1]
        c == CivilFromDays(t \div 86400)
        s == t % 86400
    IN  Digits(c[1], 4) \o <<45>> \o Digits(c[2], 2) \o <<45>> \o Digits(c[3], 2)
        \o <<84>> \o Digits(s \div 3600, 2) \o <<58>> \o Digits((s % 3600) \div 60, 2)
        \o <<58>> \o Digits(s % 60, 2) \o <<46, 48, 48, 48, 90>>

\* Date.prototype.toISOString: YYYY-MM-DDTHH:mm:ss.sssZ of the Date, in UTC
toISOString(date) ==
    LET t == date[1]
        ms == date[2]
        c == CivilFromDays(t \div 86400)
        s == t % 86400
    IN  Digits(c[1], 4) \o <<45>> \o Digits(c[2], 2) \o <<45>> \o Digits(c[3], 2)
        \o <<84>> \o Digits(s \div 3600, 2) \o <<58>> \o Digits((s % 3600) \div 60, 2)
        \o <<58>> \o Digits(s % 60, 2) \o <<46>> \o Digits(ms, 3) \o <<90>>

\* new Date(text) for a text toISOString wrote
DateParse(text) ==
    LET days == DaysFromCivil(Number(SubSeq(text, 1, 4)), Number(SubSeq(text, 6, 7)),
                              Number(SubSeq(text, 9, 10)))
        secs == Number(SubSeq(text, 12, 13)) * 3600 + Number(SubSeq(text, 15, 16)) * 60
                + Number(SubSeq(text, 18, 19))
    IN  <<days * 86400 + secs, Number(SubSeq(text, 21, 23))>>

\* now.toISOString().slice(0, 10).replace(/-/g, ''): the UTC date, YYYYMMDD
IsoDate(t) ==
    LET c == CivilFromDays(t \div 86400)
    IN  Digits(c[1], 4) \o Digits(c[2], 2) \o Digits(c[3], 2)

\* now.toTimeString().slice(0, 8).replace(/:/g, ''): the LOCAL time, HHMMSS
LocalTime(t, zone) ==
    LET s == (t + zone * 60) % 86400
    IN  Digits(s \div 3600, 2) \o Digits((s % 3600) \div 60, 2) \o Digits(s % 60, 2)

\* Math.random().toString(16).slice(2, 8) for the values of Math.random()
\* explored: 0.5 gives "8", 0.6404053... gives "a3f19c"
RandomSuffixes == { <<56>>, <<97, 51, 102, 49, 57, 99>> }

\* the history of identifiers after id was returned at instant t
Issue(h, t, id) ==
    LET k == <<t, id>>
    IN  [x \in DOMAIN h \cup {k} |-> IF x = k THEN (IF k \in DOMAIN h THEN 2 ELSE 1) ELSE h[x]]

\* generateSnapshotId() at instant t in zone, with random suffix r
generateSnapshotId(t, zone, r) ==
    SnapshotPrefix \o IsoDate(t) \o Underscore \o LocalTime(t, zone) \o Underscore \o r

----------------------------------------------------------------------------
(* The workspace *)

Paths == {"a.ts", "src/b.ts", "yarn.lock", "dist/o.js", "tsconfig.json"}

\* the spelling of a relative path
Chars(p) ==
    CASE p = "a.ts"      -> <<97, 46, 116, 115>>
      [] p = "src/b.ts"  -> <<115, 114, 99, 47, 98, 46, 116, 115>>
      [] p = "yarn.lock" -> <<121, 97, 114, 110, 46, 108, 111, 99, 107>>
      [] p = "dist/o.js" -> <<100, 105, 115, 116, 47, 111, 46, 106, 115>>
      [] p = "tsconfig.json" ->
            <<116, 115, 99, 111, 110, 102, 105, 103, 46, 106, 115, 111, 110>>

\* path.dirname, relative to the workspace ("." is the workspace itself)
DirOf(p) ==
    CASE p = "src/b.ts"  -> "src"
      [] p = "dist/o.js" -> "dist"
      [] OTHER           -> "."

\* the spelling of a directory's relative path
DirChars(d) ==
    CASE d = "src"  -> <<115, 114, 99>>
      [] d = "dist" -> <<100, 105, 115, 116>>
      [] d = ".hindsight" -> <<46, 104, 105, 110, 100, 115, 105, 103, 104, 116>>
      [] d = ".hindsight/snapshots" ->
            <<46, 104, 105, 110, 100, 115, 105, 103, 104, 116, 47,
              115, 110, 97, 112, 115, 104, 111, 116, 115>>

\* this.atlasDir and this.snapshotsDir, relative to the workspace
atlasDir == ".hindsight"
snapshotsDir == ".hindsight/snapshots"

Contents == {"x", "yy"}

\* the size in bytes that stat reports for a file holding c
Size(c) == IF c = "x" THEN 1 ELSE IF c = "yy" THEN 2 ELSE 3

NoFile == "ENOENT"

\* What the file system refuses during a behaviour: the files it does not
\* let the extension read, the files it does not let it write, the
\* directories it does not let it list, and whether it refuses to write
\* into the snapshots directory; the record files of the snapshots
\* directory it does not let it read, and whether it refuses to list the
\* snapshots directory and to remove files from it
NoFault ==
    [unreadable |-> {}, unwritable |-> {}, unlistable |-> {}, storeFull |-> FALSE,
     unreadableRecords |-> {}, storeUnlistable |-> FALSE, storeLocked |-> FALSE]

FaultPlans ==
    { NoFault,
      [NoFault EXCEPT !.unreadable = {"a.ts"}],
      [NoFault EXCEPT !.unwritable = {"src/b.ts"}],
      [NoFault EXCEPT !.unlistable = {"src"}],
      [NoFault EXCEPT !.storeFull = TRUE] }

\* readFile(p) and stat(p) succeed
Readable(p) == files[p] # NoFile /\ p \notin faults.unreadable

\* writeFile(p) succeeds
Writable(p) == p \notin faults.unwritable

----------------------------------------------------------------------------
(* Ignore rules *)

\* getAllWorkspaceFiles: ignorePatterns
BackupIgnorePatterns ==
    { <<110, 111, 100, 101, 95, 109, 111, 100, 117, 108, 101, 115>>,  \* node_modules
      <<46, 103, 105, 116>>,                                          \* .git
      <<100, 105, 115, 116>>,                                         \* dist
      <<98, 117, 105, 108, 100>>,                                     \* build
      <<111, 117, 116>>,                                              \* out
      <<46, 118, 115, 99, 111, 100, 101>>,                            \* .vscode
      <<46, 104, 105, 110, 100, 115, 105, 103, 104, 116>> }           \* .hindsight

\* FileWatcher.shouldIgnoreFile: ignorePatterns
WatcherIgnorePatterns ==
    BackupIgnorePatterns \cup
    { <<46, 68, 83, 95, 83, 116, 111, 114, 101>>,                     \* .DS_Store
      <<112, 97, 99, 107, 97, 103, 101, 45, 108, 111, 99, 107, 46, 106, 115, 111, 110>>,  \* package-lock.json
      <<121, 97, 114, 110, 46, 108, 111, 99, 107>> }                  \* yarn.lock

\* ignorePatterns.some(pattern => relativePath.includes(pattern)) in the walk
BackupIgnored(rel) == \E pat \in BackupIgnorePatterns : Includes(rel, pat)

\* a watcher whose list lacks the tool's own storage root
StorageRootWatched(rel) ==
    \E pat \in WatcherIgnorePatterns \ {<<46, 104, 105, 110, 100, 115, 105, 103, 104, 116>>} :
        Includes(rel, pat)

\* FileWatcher.shouldIgnoreFile(relativePath)
shouldIgnoreFile(rel) == \E pat \in WatcherIgnorePatterns : Includes(rel, pat)

\* a walk that applies the watcher's ignore list instead of its own
WalkSetWatcherRules ==
    { p \in Paths :
        /\ files[p] # NoFile
        /\ ~shouldIgnoreFile(Chars(p))
        /\ DirOf(p) # "." => ~shouldIgnoreFile(DirChars(DirOf(p))) }

\* the set of files getAllWorkspaceFiles collects: walkDir descends from the
\* workspace into every directory whose relative path is not ignored and
\* pushes every file whose relative path is not ignored
WalkSet ==
    { p \in Paths :
        /\ files[p] # NoFile
        /\ ~BackupIgnored(Chars(p))
        /\ DirOf(p) # "." => ~BackupIgnored(DirChars(DirOf(p))) }

\* the records of directory dir that getAllWorkspaceFiles collects: walkDir
\* meets .hindsight in the workspace's listing, and descends into it, then
\* into snapshots, then pushes a record, only where the relative path is not
\* ignored
HindsightChars == DirChars(atlasDir)
SnapshotsChars == DirChars(snapshotsDir)
WalkedRecords(dir) ==
    IF BackupIgnored(HindsightChars) \/ BackupIgnored(SnapshotsChars)
    THEN {}
    ELSE { n \in DOMAIN dir : ~BackupIgnored(SnapshotsChars \o <<47>> \o n) }

\* readdir succeeds in every directory the walk enters
Listable == \A d \in dirs : d \in faults.unlistable => BackupIgnored(DirChars(d))

\* the paths of set S in the order the directory listings give them; the
\* listings explored are those in ascending order of name
RECURSIVE Listing(_)
Listing(S) ==
    IF S = {} THEN <<>>
    ELSE LET m == CHOOSE x \in S : \A y \in S : y = x \/ StrLess(Chars(x), Chars(y))
         IN  <<m>> \o Listing(S \ {m})

----------------------------------------------------------------------------
(* The snapshot store *)

Null == [kind |-> "null"]
Garbage == [kind |-> "garbage"]

\* a Snapshot object without gitCommit; an absent gitCommit is {}
Snapshot(id, timestamp, trigger, fs) ==
    [kind |-> "snapshot", id |-> id, timestamp |-> timestamp, trigger |-> trigger,
     files |-> fs, gitCommit |-> {}]

\* a FileSnapshot object
FileSnapshot(p, content, size) == [path |-> p, content |-> content, size |-> size]

\* the StoredSnapshot saveSnapshot builds and JSON.stringify writes: the
\* timestamp as ISO text, and no gitCommit member when it is undefined
StoredSnapshot(snapshot) ==
    LET stored == [kind |-> "json", id |-> snapshot.id,
                   timestamp |-> toISOString(snapshot.timestamp),
                   trigger |-> snapshot.trigger, files |-> snapshot.files]
    IN  IF snapshot.gitCommit = {} THEN stored
        ELSE stored @@ [gitCommit |-> CHOOSE c \in snapshot.gitCommit : TRUE]

\* the Snapshot loadSnapshot builds from what JSON.parse read
ParsedSnapshot(stored) ==
    [kind |-> "snapshot", id |-> stored.id, timestamp |-> DateParse(stored.timestamp),
     trigger |-> stored.trigger, files |-> stored.files,
     gitCommit |-> IF "gitCommit" \in DOMAIN stored THEN {stored.gitCommit} ELSE {}]

\* saveSnapshot: the snapshots directory after the record is written
saveSnapshot(dir, snapshot) ==
    LET filename == snapshot.id \o JsonSuffix
    IN  [n \in DOMAIN dir \cup {filename} |->
            IF n = filename THEN StoredSnapshot(snapshot) ELSE dir[n]]

\* what a promise settled with: a rejection, or a value
Rejected == [kind |-> "rejected"]
Fulfilled(value) == [kind |-> "fulfilled", value |-> value]

\* loadSnapshot without its try and catch: the rejection of readFile and the
\* exception of JSON.parse reach the caller
loadSnapshotUncaught(dir, id) ==
    LET filename == id \o JsonSuffix
    IN  IF filename \notin DOMAIN dir THEN Rejected
        ELSE IF filename \in faults.unreadableRecords THEN Rejected
        ELSE IF dir[filename] = Garbage THEN Rejected
        ELSE ParsedSnapshot(dir[filename])

\* loadSnapshot(id): the snapshot, or Null when the record is missing,
\* cannot be read or does not parse
loadSnapshot(dir, id) ==
    LET filename == id \o JsonSuffix
    IN  IF filename \notin DOMAIN dir THEN Null
        ELSE IF filename \in faults.unreadableRecords THEN Null
        ELSE IF dir[filename] = Garbage THEN Null
        ELSE ParsedSnapshot(dir[filename])

\* the names of set S as a sequence in ascending code-unit order
RECURSIVE Ascending(_)
Ascending(S) ==
    IF S = {} THEN <<>>
    ELSE LET m == CHOOSE x \in S : \A y \in S : y = x \/ StrLess(x, y)
         IN  <<m>> \o Ascending(S \ {m})

\* Array.prototype.reverse()
Reverse(seq) == [i \in 1..Len(seq) |-> seq[Len(seq) + 1 - i]]

\* seq from its element k + 1 on, then its first k elements
Rotated(seq, k) == SubSeq(seq, k + 1, Len(seq)) \o SubSeq(seq, 1, k)

\* fs.promises.readdir(snapshotsDir): it rejects, or resolves with the names
\* of the entries in an order of the file system's choosing (explored:
\* ascending, the rotations of ascending, and descending)
Readdir(dir) ==
    IF faults.storeUnlistable THEN {Rejected}
    ELSE LET asc == Ascending(DOMAIN dir)
         IN  { Fulfilled(Rotated(asc, k)) : k \in 0..Len(asc) } \cup {Fulfilled(Reverse(asc))}

\* a listing that takes every entry of the directory for a record
EveryEntry(entries) == entries

\* files.filter(f => f.endsWith('.json'))
JsonFiles(entries) == SelectSeq(entries, LAMBDA f : EndsWith(f, JsonSuffix))

\* a listing in the order readdir reported
Unsorted(seq) == seq

\* Array.prototype.sort() without a comparator: ascending code-unit order
RECURSIVE Sort(_)
Sort(seq) ==
    IF seq = <<>> THEN <<>>
    ELSE LET rest == Sort(Tail(seq))
             x == Head(seq)
             k == Cardinality({ i \in DOMAIN rest : StrLess(rest[i], x) })
         IN  SubSeq(rest, 1, k) \o <<x>> \o SubSeq(rest, k + 1, Len(rest))

\* a getAllSnapshotIds whose catch rethrows
Rethrown(error) == error

\* the catch of getAllSnapshotIds: return []
ListingFailure(error) == Fulfilled(<<>>)

\* getAllSnapshotIds(), given what readdir settled with
getAllSnapshotIds(readdir) ==
    IF readdir.kind = "rejected" THEN ListingFailure(readdir)
    ELSE LET jsonFiles == JsonFiles(readdir.value)
             snapshotIds == [i \in DOMAIN jsonFiles |-> ReplaceFirst(jsonFiles[i], JsonSuffix)]
         IN  Fulfilled(Reverse(Sort(snapshotIds)))

\* getSnapshotCount(), given what getAllSnapshotIds settled with: ids.length
getSnapshotCount(ids) ==
    IF ids.kind = "rejected" THEN ids ELSE Fulfilled(Len(ids.value))

\* a getAllSnapshots that pushes whatever loadSnapshot returned
PushAlways(snapshots, snapshot) == Append(snapshots, snapshot)

\* one turn of the loop of getAllSnapshots: if (snapshot) snapshots.push(snapshot)
Push(snapshots, snapshot) ==
    IF snapshot # Null THEN Append(snapshots, snapshot) ELSE snapshots

\* the loop of getAllSnapshots over ids from position i on
RECURSIVE LoadEach(_, _, _, _)
LoadEach(dir, ids, i, snapshots) ==
    IF i > Len(ids) THEN snapshots
    ELSE LoadEach(dir, ids, i + 1, Push(snapshots, loadSnapshot(dir, ids[i])))

\* getAllSnapshots() with no other call between its awaits, given what
\* readdir settled with
getAllSnapshots(dir, readdir) ==
    LET ids == getAllSnapshotIds(readdir)
    IN  IF ids.kind = "rejected" THEN ids
        ELSE Fulfilled(LoadEach(dir, ids.value, 1, <<>>))

\* The snapshots directory as earlier sessions in time zone `zone` left it:
\* a capture whose record was cut short and does not parse, a backup taken
\* in an empty workspace, and a backup of three files
GarbageId(zone) == generateSnapshotId(StartInstant - 10800, zone, <<56>>)
EmptyBackupId(zone) == BackupMarker \o generateSnapshotId(StartInstant - 7200, zone, <<56>>)
FullBackupId(zone) == BackupMarker \o generateSnapshotId(StartInstant - 3600, zone, <<56>>)

EarlierStore(zone) ==
    LET full == Snapshot(FullBackupId(zone), DateAt(StartInstant - 3600), "manual",
                         << FileSnapshot("a.ts", "yy", 2),
                            FileSnapshot("src/b.ts", "yy", 2),
                            FileSnapshot("yarn.lock", "yy", 2) >>)
        empty == Snapshot(EmptyBackupId(zone), DateAt(StartInstant - 7200), "manual", <<>>)
    IN  saveSnapshot(saveSnapshot([n \in {GarbageId(zone) \o JsonSuffix} |-> Garbage], empty), full)

\* an identifier no record has: "snapshot_0"
MissingId == SnapshotPrefix \o <<48>>

----------------------------------------------------------------------------
(* I/O outcomes *)

\* getAllWorkspaceFiles rejects: restoreSnapshot's catch takes over
WalkRejected == ~Listable

\* writeFile of a record rejects: the disk is full, or the snapshots
\* directory does not exist
WriteFails == faults.storeFull \/ snapshotsDir \notin dirs

\* writeFile of a record: the snapshots directory afterwards
WriteRecord(dir, snapshot) ==
    IF WriteFails THEN dir ELSE saveSnapshot(dir, snapshot)

\* a createBackupBeforeRestore that catches the rejection of its saveSnapshot
BackupErrorSwallowed == FALSE

\* await saveSnapshot(backupSnapshot) rejects: restoreSnapshot's catch takes over
BackupRejected == WriteFails

\* the identifiers of the records persisted, after a writeFile of id's record
Persisted(ids, id) == IF WriteFails THEN ids ELSE ids \cup {id}

----------------------------------------------------------------------------
(* Tasks *)

\* no createSnapshot call in flight
CapIdle ==
    [pc |-> "idle", caller |-> "", path |-> "", trigger |-> "", content |-> "", snapshot |-> Null,
     event |-> Null]

\* no restoreSnapshot call in flight.  pre and puts are history: the
\* workspace and the snapshots directory when the call was made, and the
\* number of backup records the call has written; undo is the successful
\* restore the call follows with no edit in between, if there is one: the
\* files when that restore was called and the backup it named; read is the
\* content the backup loop has read of the file whose stat is pending
RstIdle ==
    [pc |-> "idle", target |-> <<>>, snapshot |-> Null, backupId |-> <<>>,
     allFiles |-> <<>>, fileSnapshots |-> <<>>, at |-> 0, idx |-> 0, result |-> Null,
     pre |-> <<>>, puts |-> 0, walkedRecords |-> {}, undo |-> Null, read |-> ""]

\* no call of a client in flight, and none made yet
\* ids, at and snapshots are the locals of getAllSnapshots; del is the
\* latest deleteSnapshot call (the number of the call, its argument and
\* what it returned).  History: vanished counts the
\* records deleted while getAllSnapshots was loading, last is what
\* getAllSnapshots returned if no record was written or deleted since, and
\* prev is what last was when the call that has returned was made
ApiIdle ==
    [op |-> "none", pc |-> "idle", arg |-> <<>>, result |-> Null,
     ids |-> <<>>, at |-> 0, snapshots |-> <<>>, del |-> Null,
     vanished |-> 0, last |-> Null, prev |-> Null]

\* the timeline's webview when its script has run: let selectedSnapshotId =
\* null, compareMode = false, compareSnapshots = { old: null, new: null },
\* and the initial renderTimeline().  null is the empty identifier, which is
\* as falsy.  posted is what vscode.postMessage was given, badges is who
\* carries which compare-badge in the rendered timeline.  History: clicks is
\* the snapshots clicked in compare mode since the mode was entered or a
\* comparison was asked for, nth is the rank of the latest click among them
\* (0 when the latest command was not a click in compare mode), clicked is
\* the snapshot of the latest click, commands counts the user's commands
WebviewLoaded ==
    [compareMode |-> FALSE, compareSnapshots |-> [old |-> <<>>, new |-> <<>>],
     selectedSnapshotId |-> <<>>, posted |-> <<>>, badges |-> {},
     clicks |-> <<>>, nth |-> 0, clicked |-> <<>>, commands |-> 0]

\* DiffViewer.currentPanel is undefined.  requests counts the showDiff calls
\* made, tasks are those in flight, html is the pair of snapshots whose diff
\* the panel's webview.html shows
NoDiffPanel == [open |-> FALSE, html |-> Null, tasks |-> <<>>, requests |-> 0]

\* extension.ts after activate(): fileWatcher and snapshotManager are set if
\* a workspace folder is open.  command is the latest command run, message
\* what it showed and listed the number of snapshots it offered; commands
\* counts the commands run
Activated(workspaceFolder) ==
    [fileWatcher |-> workspaceFolder, snapshotManager |-> workspaceFolder,
     workspaceFolder |-> workspaceFolder, command |-> "", message |-> "", listed |-> 0,
     commands |-> 0]

\* "../../": from <workspace>/.hindsight/snapshots up to the workspace
UpToWorkspace == <<46, 46, 47, 46, 46, 47>>

\* path.join(this.snapshotsDir, `${id}.json`): the file an identifier
\* designates.  It is an entry of the snapshots directory, or, for an
\* identifier that starts with "../../", a file of the workspace
Located(id) ==
    LET name == id \o JsonSuffix
    IN  IF StartsWith(name, UpToWorkspace)
        THEN [in |-> "workspace", name |-> SubSeq(name, Len(UpToWorkspace) + 1, Len(name))]
        ELSE [in |-> "snapshots", name |-> name]

\* the workspace files a located name designates (one, or none)
WorkspaceFiles(name) == { p \in Paths : Chars(p) = name /\ files[p] # NoFile }

\* an unlink that resolves whether or not the file exists
UnlinkedAlways(id) == TRUE

\* fs.promises.unlink of the file deleteSnapshot(id) designates resolves
Unlinked(id) ==
    LET at == Located(id)
    IN  IF at.in = "snapshots"
        THEN at.name \in DOMAIN snapDir /\ ~faults.storeLocked
        ELSE \E p \in WorkspaceFiles(at.name) : Writable(p)

\* the value restoreSnapshot resolves to; an absent backupId or error is {}
Outcome(success, backupId, error) ==
    [kind |-> "outcome", success |-> success, backupId |-> backupId, error |-> error]

Init ==
    /\ files = [p \in Paths |-> IF p \in {"yarn.lock", "tsconfig.json"} THEN NoFile ELSE "x"]
    /\ dirs = {"src", "dist", atlasDir, snapshotsDir}
    /\ faults \in FaultPlans
    /\ now = StartInstant
    /\ tz \in TimeZones
    /\ snapDir = EarlierStore(tz)
    /\ watching \in {{"files"}, {"files", "records"}}
    /\ events = {}
    /\ filesChanged = 0
    /\ cap = CapIdle
    /\ cap2 = CapIdle
    /\ webview = WebviewLoaded
    /\ diffPanel = NoDiffPanel
    /\ extension = Activated(TRUE)
    /\ rst = RstIdle
    /\ issued = [k \in {} |-> 0]
    /\ ops = 0
    /\ ticks = 0
    /\ api = ApiIdle
    /\ live = {GarbageId(tz), EmptyBackupId(tz), FullBackupId(tz)}

----------------------------------------------------------------------------
(* The user and the clock *)

\* The user acts, and the clock advances, between the extension's tasks: no
\* event is undelivered and no createSnapshot or restoreSnapshot call is in
\* flight.  The outcome of the last restore stays in rst until the user's
\* next command
Quiet == events = {} /\ cap.pc = "idle" /\ rst.pc \in {"idle", "done"}

\* the files the user edits, and those the user deletes
Edited == {"a.ts", "src/b.ts"}
Deleted == {"src/b.ts"}

\* the relative path of a record of the snapshots directory: the constructor's
\* path.join(workspaceRoot, '.hindsight') and path.join(atlasDir, 'snapshots')
RecordPath(name) == SnapshotsChars \o <<47>> \o name

\* createFileSystemWatcher('**/*') reports every file under the workspace:
\* an event names a file of the workspace (record is empty) or a record of
\* the snapshots directory (path is empty)
FileEvent(p, kind) == [path |-> p, kind |-> kind, record |-> <<>>]
RecordEvent(name, kind) == [path |-> "", kind |-> kind, record |-> name]

\* the events the host raises for a set of changes: none once stop() has
\* disposed of the watcher, and none for the records when the host's
\* files.watcherExclude setting covers the .hindsight directory
Raised(changes) ==
    { e \in changes : IF e.record = <<>> THEN "files" \in watching ELSE "records" \in watching }

\* the event the host's watcher raises for a write to p
WriteEvent(p) == FileEvent(p, IF files[p] = NoFile THEN "created" ELSE "changed")

\* the events raised by the writeFile of a record into directory dir
RecordWritten(dir, id) ==
    IF WriteFails
    THEN {}
    ELSE {RecordEvent(id \o JsonSuffix,
                      IF id \o JsonSuffix \in DOMAIN dir THEN "changed" ELSE "created")}

\* path.relative(workspaceRoot, uri.fsPath) in onFileChanged
RelativePath(e) == IF e.record = <<>> THEN Chars(e.path) ELSE RecordPath(e.record)

\* the user saves content c to p in the editor
EditorSave(p, c) ==
    /\ ops < MaxOps
    /\ Quiet
    /\ Writable(p)
    /\ files' = [files EXCEPT ![p] = c]
    /\ dirs' = IF DirOf(p) = "." THEN dirs ELSE dirs \cup {DirOf(p)}
    /\ events' = events \cup Raised({WriteEvent(p)})
    /\ ops' = ops + 1
    /\ rst' = RstIdle
    /\ UNCHANGED <<faults, snapDir, now, tz, filesChanged, cap, cap2, issued, ticks, api, live, watching, webview, diffPanel, extension>>

\* p is deleted, and its directory with it
DeleteFile(p) ==
    /\ ops < MaxOps
    /\ files[p] # NoFile
    /\ Writable(p)
    /\ files' = [files EXCEPT ![p] = NoFile]
    /\ dirs' = dirs \ {DirOf(p)}
    /\ events' = events \cup Raised({FileEvent(p, "deleted")})
    /\ ops' = ops + 1
    /\ rst' = RstIdle
    /\ UNCHANGED <<faults, snapDir, now, tz, filesChanged, cap, cap2, issued, ticks, api, live, watching, webview, diffPanel, extension>>

\* the user deletes p between the extension's tasks
UserDelete(p) == Quiet /\ DeleteFile(p)

\* p is deleted while the watcher has events to deliver or a createSnapshot
\* call is in flight: the readFile or the stat of a capture of p then fails
DeleteBehind(p) ==
    /\ events # {} \/ cap.pc # "idle"
    /\ rst.pc \in {"idle", "done"}
    /\ DeleteFile(p)

\* a second passes
Tick ==
    /\ ticks < MaxTicks
    /\ Quiet
    /\ now' = now + 1
    /\ ticks' = ticks + 1
    /\ UNCHANGED <<files, dirs, faults, snapDir, tz, events, filesChanged, cap, cap2, rst, issued, ops, api, live, watching, webview, diffPanel, extension>>

----------------------------------------------------------------------------
(* FileWatcher and SnapshotManager.createSnapshot *)

\* the trigger createSnapshotForFile maps an event kind to
TriggerOf(kind) == IF kind = "created" THEN "file_create" ELSE "file_save"

\* a watcher that snapshots on every kind of event
CapturesEveryKind(kind) == TRUE

\* eventType === 'changed' || eventType === 'created' in onFileChanged
Captures(kind) == kind \in {"changed", "created"}

\* onFileChanged: the watcher delivers event e; a created or changed event
\* for a path that is not ignored calls createSnapshotForFile, which starts
\* createSnapshot (its readFile is then pending)
OnFileChanged(e) ==
    /\ e \in events
    /\ cap.pc = "idle"
    /\ events' = events \ {e}
    /\ IF shouldIgnoreFile(RelativePath(e))
       THEN UNCHANGED <<filesChanged, cap>>
       ELSE /\ filesChanged' = filesChanged + 1
            /\ cap' = IF Captures(e.kind)
                      THEN [CapIdle EXCEPT !.pc = "read", !.caller = "watcher", !.path = e.path,
                                           !.trigger = TriggerOf(e.kind), !.event = e]
                      ELSE cap
    /\ UNCHANGED <<files, dirs, faults, snapDir, now, tz, rst, cap2, issued, ops, ticks, api, live, watching, webview, diffPanel, extension>>

\* a createSnapshot without its catch block: the caller gets a rejection
Uncaught(value) ==
    IF cap.caller = "client" THEN [api EXCEPT !.pc = "done", !.result = Rejected] ELSE api

\* createSnapshot resolves with value (a snapshot, or Null): a client keeps
\* the value, createSnapshotForFile of the watcher logs it and drops it
Resolved(value) ==
    IF cap.caller = "client" THEN [api EXCEPT !.pc = "done", !.result = value] ELSE api

\* the same when createSnapshot has called saveSnapshot
ResolvedAfterSave(value) == [Resolved(value) EXCEPT !.last = Null]

\* a createSnapshot that returns the snapshot whether or not it was saved
SaveResultUnchecked(snapshot) == snapshot

\* await this.saveSnapshot(snapshot); return snapshot; and the catch block's
\* return null when saveSnapshot rejected
SaveResult(snapshot) == IF WriteFails THEN Null ELSE snapshot

\* createSnapshot: readFile resolves, or rejects and createSnapshot returns null
CaptureRead ==
    /\ cap.pc = "read"
    /\ cap.path \in Paths
    /\ IF Readable(cap.path)
       THEN /\ cap' = [cap EXCEPT !.pc = "stat", !.content = files[cap.path]]
            /\ UNCHANGED api
       ELSE /\ cap' = CapIdle
            /\ api' = Resolved(Null)
    /\ UNCHANGED <<files, dirs, faults, snapDir, now, tz, events, filesChanged, rst, cap2, issued, ops, ticks, live, watching, webview, diffPanel, extension>>

\* createSnapshot: stat resolves (or rejects: null); the snapshot object is
\* built with a fresh identifier and saveSnapshot is called
CaptureStat ==
    /\ cap.pc = "stat"
    /\ IF Readable(cap.path)
       THEN \E r \in RandomSuffixes :
              LET id == generateSnapshotId(now, tz, r)
                  fileSnapshot == FileSnapshot(cap.path, cap.content, Size(files[cap.path]))
              IN  /\ cap' = [cap EXCEPT !.pc = "save",
                                        !.snapshot = Snapshot(id, DateAt(now), cap.trigger, <<fileSnapshot>>)]
                  /\ issued' = Issue(issued, now, id)
                  /\ UNCHANGED api
       ELSE /\ cap' = CapIdle
            /\ api' = Resolved(Null)
            /\ UNCHANGED issued
    /\ UNCHANGED <<files, dirs, faults, snapDir, now, tz, events, filesChanged, rst, cap2, ops, ticks, live, watching, webview, diffPanel, extension>>

\* createSnapshot: the record's writeFile resolves and the snapshot is
\* returned, or it rejects and null is returned
CaptureSave ==
    /\ cap.pc = "save"
    /\ snapDir' = WriteRecord(snapDir, cap.snapshot)
    /\ cap' = CapIdle
    /\ api' = ResolvedAfterSave(SaveResult(cap.snapshot))
    /\ live' = Persisted(live, cap.snapshot.id)
    /\ events' = events \cup Raised(RecordWritten(snapDir, cap.snapshot.id))
    /\ UNCHANGED <<files, dirs, faults, now, tz, filesChanged, rst, cap2, issued, ops, ticks, watching, webview, diffPanel, extension>>

----------------------------------------------------------------------------
(* SnapshotManager.restoreSnapshot *)

\* a lookup whose result is never tested
NotFoundUntested(snapshot) == FALSE

\* if (!snapshot)
NotFound(snapshot) == snapshot = Null


\* return { success: false, error: 'Snapshot not found' }
NotFoundOutcome == Outcome(FALSE, {}, {"Snapshot not found"})

\* a catch block that drops the message
FailureWithoutMessage(message) == Outcome(FALSE, {}, {})

\* the catch block: return { success: false, error: error.message }
FailureOutcome(message) == Outcome(FALSE, {}, {message})

\* a success that does not name the backup
SuccessWithoutBackupId(backupId) == Outcome(TRUE, {}, {})

\* return { success: true, backupId: backupId }
SuccessOutcome(backupId) == Outcome(TRUE, {backupId}, {})

\* a backup stored under the plain identifier
UnmarkedBackupId(id) == id

\* the identifier createBackupBeforeRestore gives the backup
BackupId(id) == BackupMarker \o id

\* a restore that mirrors the snapshot: the files it does not hold are removed
WriteFileMirroring(fs, p, content) == [q \in DOMAIN fs |-> IF q = p THEN content ELSE NoFile]

\* a write that leaves an existing file alone
WriteFileIfAbsent(fs, p, content) ==
    IF fs[p] = NoFile THEN [fs EXCEPT ![p] = content] ELSE fs

\* fs.promises.writeFile(filePath, file.content, 'utf8'): the files afterwards
WriteFile(fs, p, content) == [fs EXCEPT ![p] = content]

\* a backup loop that stops capturing after its first file
BackupCaptureFirstOnly(captures, p) ==
    IF Readable(p) /\ captures = <<>>
    THEN Append(captures, FileSnapshot(p, files[p], Size(files[p])))
    ELSE captures

\* the backup loop: the captures after trying path p (a file that cannot be
\* read is skipped)
BackupCapture(captures, p) ==
    IF Readable(p)
    THEN Append(captures, FileSnapshot(p, files[p], Size(files[p])))
    ELSE captures

\* what a restore that follows restore r, with no edit since r returned, can
\* undo: nothing unless r succeeded
Undoable(r) ==
    IF r.pc = "done" /\ r.result.success
    THEN [files |-> r.pre.files, backupId |-> r.backupId]
    ELSE Null

\* the user asks for snapshot id to be restored: restoreSnapshot(id) is
\* called and its loadSnapshot is pending
RestoreCall(id) ==
    /\ ops < MaxOps
    /\ Quiet
    /\ rst' = [RstIdle EXCEPT !.pc = "load", !.target = id,
                              !.pre = [files |-> files, dirs |-> dirs, store |-> snapDir],
                              !.undo = Undoable(rst)]
    /\ ops' = ops + 1
    /\ UNCHANGED <<files, dirs, faults, snapDir, now, tz, events, filesChanged, cap, cap2, issued, ticks, api, live, watching, webview, diffPanel, extension>>

\* loadSnapshot resolves: not found, or createBackupBeforeRestore starts,
\* names the backup and calls getAllWorkspaceFiles
RestoreLoad ==
    /\ rst.pc = "load"
    /\ LET snapshot == loadSnapshot(snapDir, rst.target)
       IN  IF NotFound(snapshot)
           THEN /\ rst' = [rst EXCEPT !.pc = "done", !.result = NotFoundOutcome]
                /\ UNCHANGED issued
           ELSE \E r \in RandomSuffixes :
                  LET id == generateSnapshotId(now, tz, r)
                  IN  /\ rst' = [rst EXCEPT !.pc = "walk", !.snapshot = snapshot,
                                            !.backupId = BackupId(id)]
                      /\ issued' = Issue(issued, now, id)
    /\ UNCHANGED <<files, dirs, faults, snapDir, now, tz, events, filesChanged, cap, cap2, ops, ticks, api, live, watching, webview, diffPanel, extension>>

\* getAllWorkspaceFiles resolves with the files in the order the directory
\* listings gave them, or a readdir rejects and restoreSnapshot's catch
\* returns the failure
RestoreWalk ==
    /\ rst.pc = "walk"
    /\ rst' = IF WalkRejected
              THEN [rst EXCEPT !.pc = "done", !.result = FailureOutcome("EACCES: scandir")]
              ELSE [rst EXCEPT !.pc = "read", !.allFiles = Listing(WalkSet), !.at = 1,
                               !.walkedRecords = WalkedRecords(snapDir)]
    /\ UNCHANGED <<files, dirs, faults, snapDir, now, tz, events, filesChanged, cap, cap2, issued, ops, ticks, api, live, watching, webview, diffPanel, extension>>

\* one turn of the backup loop: readFile and stat of the next file
RestoreRead ==
    /\ rst.pc = "read"
    /\ rst.at <= Len(rst.allFiles)
    /\ rst' = [rst EXCEPT !.at = @ + 1,
                          !.fileSnapshots = BackupCapture(@, rst.allFiles[rst.at])]
    /\ UNCHANGED <<files, dirs, faults, snapDir, now, tz, events, filesChanged, cap, cap2, issued, ops, ticks, api, live, watching, webview, diffPanel, extension>>

\* the backup snapshot is built and saveSnapshot resolves, or its writeFile
\* rejects and restoreSnapshot's catch returns the failure
RestoreSave ==
    /\ rst.pc = "read"
    /\ rst.at > Len(rst.allFiles)
    /\ snapDir' = WriteRecord(snapDir, Snapshot(rst.backupId, DateAt(now), "manual", rst.fileSnapshots))
    /\ LET puts == IF WriteFails THEN rst.puts ELSE rst.puts + 1
       IN  rst' = IF BackupRejected
                  THEN [rst EXCEPT !.pc = "done", !.puts = puts,
                                   !.result = FailureOutcome("ENOSPC: write")]
                  ELSE [rst EXCEPT !.pc = "write", !.puts = puts, !.idx = 1]
    /\ live' = Persisted(live, rst.backupId)
    /\ api' = [api EXCEPT !.last = Null]
    /\ events' = events \cup Raised(RecordWritten(snapDir, rst.backupId))
    /\ UNCHANGED <<files, dirs, faults, now, tz, filesChanged, cap, cap2, issued, ops, ticks, watching, webview, diffPanel, extension>>

\* one turn of the restore loop: the destination directory is created if it
\* is missing, then writeFile resolves, or rejects and the catch returns the
\* failure
RestoreWrite ==
    /\ rst.pc = "write"
    /\ rst.idx <= Len(rst.snapshot.files)
    /\ LET file == rst.snapshot.files[rst.idx]
           dir  == DirOf(file.path)
           mk   == IF dir = "." \/ dir \in dirs THEN {} ELSE {dir}
       IN  /\ dirs' = dirs \cup mk
           /\ IF ~Writable(file.path)
              THEN /\ rst' = [rst EXCEPT !.pc = "done", !.result = FailureOutcome("EACCES: write")]
                   /\ UNCHANGED <<files, events>>
              ELSE /\ files' = WriteFile(files, file.path, file.content)
                   /\ events' = events \cup Raised({WriteEvent(file.path)})
                   /\ rst' = [rst EXCEPT !.idx = @ + 1]
    /\ UNCHANGED <<faults, snapDir, now, tz, filesChanged, cap, cap2, issued, ops, ticks, api, live, watching, webview, diffPanel, extension>>

\* the restore loop is over: success, with the backup's identifier
RestoreReturn ==
    /\ rst.pc = "write"
    /\ rst.idx > Len(rst.snapshot.files)
    /\ rst' = [rst EXCEPT !.pc = "done", !.result = SuccessOutcome(rst.backupId)]
    /\ UNCHANGED <<files, dirs, faults, snapDir, now, tz, events, filesChanged, cap, cap2, issued, ops, ticks, api, live, watching, webview, diffPanel, extension>>

----------------------------------------------------------------------------
(* The system *)

\* the identifiers a restore may be asked for: those the timeline lists,
\* and one that no record has
Requestable == { ReplaceFirst(n, JsonSuffix) : n \in DOMAIN snapDir } \cup {MissingId}

Next ==
    \/ \E p \in Edited, c \in Contents : EditorSave(p, c)
    \/ \E p \in Deleted : UserDelete(p)
    \/ \E e \in events : OnFileChanged(e)
    \/ CaptureRead
    \/ CaptureStat
    \/ CaptureSave
    \/ \E id \in Requestable : RestoreCall(id)
    \/ RestoreLoad
    \/ RestoreWalk
    \/ RestoreRead
    \/ RestoreSave
    \/ RestoreWrite
    \/ RestoreReturn

\* the store and the restore protocol within one second of the clock, on a
\* host in the zone UTC-05:00
\* the watcher is told of the workspace's files only
WatchingFiles == watching = {"files"}

InitLocal == Init /\ tz = -300 /\ WatchingFiles

Spec == InitLocal /\ [][Next]_vars

\* the same with the clock advancing between the tasks
NextTimed == Next \/ Tick

InitTimed == Init /\ WatchingFiles

SpecTimed == InitTimed /\ [][NextTimed]_vars

\* the timed system on a host whose time zone is UTC
InitUtc == Init /\ tz = 0 /\ WatchingFiles

SpecUtc == InitUtc /\ [][NextTimed]_vars

----------------------------------------------------------------------------
(* A client of SnapshotManager: the store operations called directly *)

\* the snapshots directory before the first snapshot
EmptyDir == [n \in {} |-> Garbage]

\* a file of the snapshots directory that is no record: ".DS_Store"
StrayFile == [n \in {<<46, 68, 83, 95, 83, 116, 111, 114, 101>>} |-> Garbage]

\* the snapshots directory is missing: nothing can be listed, read, written
\* or removed in it
MissingStore ==
    [NoFault EXCEPT !.storeFull = TRUE, !.storeUnlistable = TRUE, !.storeLocked = TRUE]

StoreFaultPlans ==
    { NoFault,
      [NoFault EXCEPT !.unreadable = {"a.ts"}],
      [NoFault EXCEPT !.storeFull = TRUE],
      [NoFault EXCEPT !.unreadableRecords = {FullBackupId(0) \o JsonSuffix}],
      [NoFault EXCEPT !.storeUnlistable = TRUE],
      [NoFault EXCEPT !.storeLocked = TRUE] }

\* the workspace holds a.ts, src/b.ts, dist/o.js and tsconfig.json; the
\* snapshots directory is as earlier sessions left it, or has no record yet
InitStore ==
    /\ files = [p \in Paths |-> IF p = "yarn.lock" THEN NoFile ELSE "x"]
    /\ dirs = {"src", "dist", atlasDir, snapshotsDir}
    /\ \/ faults \in StoreFaultPlans /\ snapDir = StrayFile @@ EarlierStore(0)
       \/ faults \in {NoFault, MissingStore} /\ snapDir = EmptyDir
    /\ now = StartInstant
    /\ tz = 0
    /\ watching = {}
    /\ events = {}
    /\ filesChanged = 0
    /\ cap = CapIdle
    /\ cap2 = CapIdle
    /\ webview = WebviewLoaded
    /\ diffPanel = NoDiffPanel
    /\ extension = Activated(TRUE)
    /\ rst = RstIdle
    /\ issued = [k \in {} |-> 0]
    /\ ops = 0
    /\ ticks = 0
    /\ api = ApiIdle
    /\ live = IF snapDir = EmptyDir
              THEN {}
              ELSE {GarbageId(0), EmptyBackupId(0), FullBackupId(0)}

\* no call of the client is in flight
Returned == api.pc \in {"idle", "done"} /\ cap.pc = "idle" /\ rst.pc \in {"idle", "done"}

\* the client's record of a call of op it makes
Call(op, arg) == [ApiIdle EXCEPT !.op = op, !.pc = "call", !.arg = arg, !.last = api.last]

\* the client's record of a call that has returned result
Return(op, arg, result) == [Call(op, arg) EXCEPT !.pc = "done", !.result = result]

\* the client calls createSnapshot(filePath, trigger)
CreateCall(p, trigger) ==
    /\ ops < MaxOps
    /\ Returned
    /\ cap' = [CapIdle EXCEPT !.pc = "read", !.caller = "client", !.path = p, !.trigger = trigger]
    /\ api' = Call("createSnapshot", p)
    /\ ops' = ops + 1
    /\ UNCHANGED <<files, dirs, faults, snapDir, now, tz, events, filesChanged, rst, cap2, issued, ticks, live, watching, webview, diffPanel, extension>>

\* getAllSnapshots is between two of its awaits
Loading == api.op = "getAllSnapshots" /\ api.pc = "load"

\* the client calls deleteSnapshot(id), possibly while its getAllSnapshots
\* call is loading: unlink resolves and true is returned, or it rejects and
\* the catch block returns false
DeleteCall(id) ==
    /\ ops < MaxOps
    /\ Returned \/ Loading
    /\ LET at == Located(id)
       IN  IF Unlinked(id)
           THEN IF at.in = "snapshots"
                THEN /\ snapDir' = [n \in DOMAIN snapDir \ {at.name} |-> snapDir[n]]
                     /\ live' = live \ {id}
                     /\ UNCHANGED files
                ELSE /\ files' = [p \in Paths |-> IF p \in WorkspaceFiles(at.name) THEN NoFile ELSE files[p]]
                     /\ UNCHANGED <<snapDir, live>>
           ELSE UNCHANGED <<snapDir, files, live>>
    /\ LET del == [arg |-> id, result |-> Unlinked(id), call |-> ops + 1]
       IN  api' = IF Loading
                  THEN [api EXCEPT !.del = del, !.last = Null,
                                   !.vanished = IF Unlinked(id) THEN @ + 1 ELSE @]
                  ELSE [Return("deleteSnapshot", id, Unlinked(id)) EXCEPT !.del = del, !.last = Null]
    /\ ops' = ops + 1
    /\ UNCHANGED <<dirs, faults, now, tz, events, filesChanged, cap, cap2, rst, issued, ticks, watching, webview, diffPanel, extension>>

\* the client calls restoreSnapshot(id)
RestoreCallByClient(id) ==
    /\ Returned
    /\ RestoreCall(id)

\* the client calls loadSnapshot(id)
LoadCall(id) ==
    /\ ops < MaxOps
    /\ Returned
    /\ api' = Return("loadSnapshot", id, loadSnapshot(snapDir, id))
    /\ ops' = ops + 1
    /\ UNCHANGED <<files, dirs, faults, snapDir, now, tz, events, filesChanged, cap, cap2, rst, issued, ticks, live, watching, webview, diffPanel, extension>>

\* the client calls getAllSnapshotIds()
IdsCall ==
    /\ ops < MaxOps
    /\ Returned
    /\ \E readdir \in Readdir(snapDir) :
          api' = Return("getAllSnapshotIds", <<>>, getAllSnapshotIds(readdir))
    /\ ops' = ops + 1
    /\ UNCHANGED <<files, dirs, faults, snapDir, now, tz, events, filesChanged, cap, cap2, rst, issued, ticks, live, watching, webview, diffPanel, extension>>

\* the client calls getSnapshotCount()
CountCall ==
    /\ ops < MaxOps
    /\ Returned
    /\ \E readdir \in Readdir(snapDir) :
          api' = Return("getSnapshotCount", <<>>, getSnapshotCount(getAllSnapshotIds(readdir)))
    /\ ops' = ops + 1
    /\ UNCHANGED <<files, dirs, faults, snapDir, now, tz, events, filesChanged, cap, cap2, rst, issued, ticks, live, watching, webview, diffPanel, extension>>

\* the client calls getAllSnapshots(): getAllSnapshotIds settles
ListCall ==
    /\ ops < MaxOps
    /\ Returned
    /\ \E readdir \in Readdir(snapDir) :
          LET ids == getAllSnapshotIds(readdir)
          IN  api' = IF ids.kind = "rejected"
                     THEN Return("getAllSnapshots", <<>>, ids)
                     ELSE [Call("getAllSnapshots", <<>>) EXCEPT
                              !.pc = "load", !.ids = ids.value, !.at = 1, !.prev = api.last]
    /\ ops' = ops + 1
    /\ UNCHANGED <<files, dirs, faults, snapDir, now, tz, events, filesChanged, cap, cap2, rst, issued, ticks, live, watching, webview, diffPanel, extension>>

\* one turn of the loop of getAllSnapshots: loadSnapshot(id) settles
ListLoad ==
    /\ Loading
    /\ api.at <= Len(api.ids)
    /\ api' = [api EXCEPT !.at = @ + 1,
                          !.snapshots = Push(@, loadSnapshot(snapDir, api.ids[api.at]))]
    /\ UNCHANGED <<files, dirs, faults, snapDir, now, tz, events, filesChanged, cap, cap2, rst, issued, ops, ticks, live, watching, webview, diffPanel, extension>>

\* the loop of getAllSnapshots is over: return snapshots
ListReturn ==
    /\ Loading
    /\ api.at > Len(api.ids)
    /\ LET result == Fulfilled(api.snapshots)
       IN  api' = [api EXCEPT !.pc = "done", !.result = result,
                              !.last = IF api.vanished = 0 THEN result ELSE Null]
    /\ UNCHANGED <<files, dirs, faults, snapDir, now, tz, events, filesChanged, cap, cap2, rst, issued, ops, ticks, live, watching, webview, diffPanel, extension>>

\* an identifier that designates tsconfig.json of the workspace:
\* "../../tsconfig"
ClimbingId == UpToWorkspace \o <<116, 115, 99, 111, 110, 102, 105, 103>>

\* the identifiers the client asks for: those of the files of the
\* snapshots directory, one that no record has, and one that climbs out of
\* the snapshots directory
Asked == Requestable \cup {ClimbingId}

NextStore ==
    \/ \E p \in {"a.ts", "src/b.ts", "yarn.lock"}, trigger \in {"file_save", "manual"} :
          CreateCall(p, trigger)
    \/ CaptureRead
    \/ CaptureStat
    \/ CaptureSave
    \/ \E id \in Asked : DeleteCall(id)
    \/ \E id \in Requestable : RestoreCallByClient(id)
    \/ RestoreLoad
    \/ RestoreWalk
    \/ RestoreRead
    \/ RestoreSave
    \/ RestoreWrite
    \/ RestoreReturn
    \/ \E id \in Requestable : LoadCall(id)
    \/ IdsCall
    \/ CountCall
    \/ ListCall
    \/ ListLoad
    \/ ListReturn

SpecStore == InitStore /\ [][NextStore]_vars

\* C12: when createSnapshot has returned a snapshot, the store holds a
\* record under the snapshot's identifier and loadSnapshot of the
\* identifier yields the snapshot; a snapshot whose record was not written
\* is never returned
C12_ReturnedMeansPersisted ==
    (api.op = "createSnapshot" /\ api.pc = "done" /\ api.result # Null) =>
        /\ api.result.id \o JsonSuffix \in DOMAIN snapDir
        /\ loadSnapshot(snapDir, api.result.id) = api.result

\* C12 witness: createSnapshot has returned a snapshot of src/b.ts
C12_Witness ==
    /\ api.op = "createSnapshot"
    /\ api.pc = "done"
    /\ api.result # Null
    /\ api.result.files = << FileSnapshot("src/b.ts", "x", 1) >>

\* C13 as claimed: a persisted record is never rewritten, and is removed
\* only by deleteSnapshot of its own identifier
C13_RecordsNeverRewritten ==
    [][\A n \in DOMAIN snapDir :
          IF n \in DOMAIN snapDir'
          THEN snapDir'[n] = snapDir[n]
          ELSE /\ api'.del # Null
               /\ api'.del.call = ops' /\ ops' # ops
               /\ api'.del.arg \o JsonSuffix = n]_vars

Called == ops' # ops /\ rst'.pc = rst.pc

\* C14: every loadSnapshot(id) call returns: the absent value, the same one,
\* when id has no record, when its record cannot be read and when its record
\* does not parse, and the record's snapshot otherwise
C14_LoadNeverThrows ==
    [][(api'.op = "loadSnapshot" /\ Called) =>
          LET filename == api'.arg \o JsonSuffix
              missing == filename \notin DOMAIN snapDir
              unreadable == ~missing /\ filename \in faults.unreadableRecords
              corrupt == ~missing /\ snapDir[filename] = Garbage
          IN  /\ api'.pc = "done"
              /\ api'.result.kind \in {"null", "snapshot"}
              /\ (missing \/ unreadable \/ corrupt) <=> (api'.result = Null)
              /\ api'.result # Null => api'.result = ParsedSnapshot(snapDir[filename])]_vars

\* C14 witness: loadSnapshot has returned the absent value for a record
\* that does not parse
C14_Witness ==
    /\ api.op = "loadSnapshot"
    /\ api.pc = "done"
    /\ api.arg = GarbageId(0)
    /\ snapDir[GarbageId(0) \o JsonSuffix] = Garbage
    /\ api.result = Null

\* the elements of seq
Range(seq) == { seq[i] : i \in DOMAIN seq }

\* ids is the identifiers of the records persisted and not deleted since,
\* each once and without the storage suffix
ListsLive(ids) ==
    /\ Range(ids) = live
    /\ Len(ids) = Cardinality(live)
    /\ \A i \in DOMAIN ids : ~EndsWith(ids[i], JsonSuffix)

\* C16 as claimed: whatever calls came before, getAllSnapshotIds returns
\* exactly the identifiers of the records persisted and not deleted since,
\* and getSnapshotCount their number
C16_ListsPersisted ==
    [][/\ (api'.op = "getAllSnapshotIds" /\ Called) =>
              /\ api'.result.kind = "fulfilled"
              /\ ListsLive(api'.result.value)
       /\ (api'.op = "getSnapshotCount" /\ Called) =>
              api'.result = Fulfilled(Cardinality(live))]_vars

\* C16 amended: when readdir of the snapshots directory resolves,
\* getAllSnapshotIds returns exactly the identifiers of the records persisted
\* and not deleted since, each once and without the suffix, and
\* getSnapshotCount their number; when readdir rejects they return the empty
\* sequence and 0 whatever is persisted
C16_ListsPersistedWhenListable ==
    [][/\ (api'.op = "getAllSnapshotIds" /\ Called) =>
              /\ api'.result.kind = "fulfilled"
              /\ IF faults.storeUnlistable
                 THEN api'.result.value = <<>>
                 ELSE ListsLive(api'.result.value)
       /\ (api'.op = "getSnapshotCount" /\ Called) =>
              api'.result =
                  Fulfilled(IF faults.storeUnlistable THEN 0 ELSE Cardinality(live))]_vars

\* C16 witness: getAllSnapshotIds has returned four identifiers, the one of
\* a record createSnapshot has just persisted among them, from a directory
\* that holds a file that is no record
C16_Witness ==
    /\ api.op = "getAllSnapshotIds"
    /\ api.pc = "done"
    /\ Len(api.result.value) = 4
    /\ DOMAIN StrayFile \subseteq DOMAIN snapDir
    /\ \E t \in DOMAIN issued : \E k \in 1..4 : api.result.value[k] = t[2]

\* the step is one in which a call of the client returns: a call that
\* returns at once, or the end of the loop of getAllSnapshots
Returns == Called \/ api.pc = "load"

\* the position of id in ids
Position(ids, id) == CHOOSE i \in DOMAIN ids : ids[i] = id

\* C17: getAllSnapshots never fails; what it returns holds snapshots only,
\* those of identifiers getAllSnapshotIds returned and in their order, at
\* most as many as getSnapshotCount counts; every identifier whose record
\* loads is represented, and when no record vanished during the call the
\* result is exactly the snapshots of the identifiers whose loadSnapshot is
\* not absent
C17_ListingSkipsAbsent ==
    [][(api'.op = "getAllSnapshots" /\ api'.pc = "done" /\ Returns) =>
          /\ api'.result.kind = "fulfilled"
          /\ LET ids == api'.ids
                 listed == api'.result.value
                 loaded == [i \in DOMAIN ids |-> loadSnapshot(snapDir, ids[i])]
             IN  /\ Len(listed) <= Len(ids)
                 /\ \A k \in DOMAIN listed :
                       /\ listed[k].kind = "snapshot"
                       /\ listed[k].id \in Range(ids)
                 /\ \A j, k \in DOMAIN listed :
                       j < k => Position(ids, listed[j].id) < Position(ids, listed[k].id)
                 /\ \A i \in DOMAIN ids :
                       loaded[i] # Null => \E k \in DOMAIN listed : listed[k] = loaded[i]
                 /\ api'.vanished = 0 =>
                       listed = SelectSeq(loaded, LAMBDA snapshot : snapshot # Null)]_vars

\* C17 witness: getAllSnapshots has returned one snapshot of three
\* identifiers: one record does not parse and one was deleted while the
\* call was loading
C17_Witness ==
    /\ api.op = "getAllSnapshots"
    /\ api.pc = "done"
    /\ Len(api.ids) = 3
    /\ api.vanished = 1
    /\ Len(api.result.value) = 1
    /\ \E i \in 1..3 : api.ids[i] = GarbageId(0)

\* C18: when the snapshots directory is empty, is missing or cannot be
\* read, getAllSnapshotIds and getAllSnapshots return the empty sequence and
\* getSnapshotCount returns 0: none of them fails
C18_EmptyWhenNothingListed ==
    [][(/\ api'.op \in {"getAllSnapshotIds", "getAllSnapshots", "getSnapshotCount"}
        /\ api'.pc = "done"
        /\ Returns
        /\ faults.storeUnlistable \/ (DOMAIN snapDir = {} /\ api'.vanished = 0)) =>
          api'.result = Fulfilled(IF api'.op = "getSnapshotCount" THEN 0 ELSE <<>>)]_vars

\* C18 witness: getSnapshotCount has returned 0, and getAllSnapshots the
\* empty sequence before it, for a directory that holds three records and
\* cannot be read
C18_Witness ==
    /\ faults.storeUnlistable
    /\ Cardinality(live) = 3
    /\ api.op = "getSnapshotCount"
    /\ api.pc = "done"
    /\ api.result = Fulfilled(0)
    /\ api.last = Fulfilled(<<>>)

\* C19: a getAllSnapshots call returns what the getAllSnapshots call before
\* it returned when no record was written or deleted in between; what it
\* returns is determined by the files of the snapshots directory, whatever
\* the order in which readdir reports them
C19_ListingRepeats ==
    [][(api'.op = "getAllSnapshots" /\ api'.pc = "done" /\ Returns /\ api'.vanished = 0) =>
          /\ api'.prev # Null => api'.result = api'.prev
          /\ \A readdir \in Readdir(snapDir) :
                api'.result = getAllSnapshots(snapDir, readdir)]_vars

\* C19 witness: getAllSnapshots has returned two snapshots, as the call
\* before it did
C19_Witness ==
    /\ api.op = "getAllSnapshots"
    /\ api.pc = "done"
    /\ api.prev # Null
    /\ Len(api.prev.value) = 2
    /\ api.result = api.prev

\* C20 as claimed: createSnapshot, loadSnapshot, getAllSnapshotIds,
\* getAllSnapshots, getSnapshotCount and deleteSnapshot leave every file of
\* the workspace as it is, in existence and in content: only a step of
\* restoreSnapshot's loop changes one
C20_StoreOperationsKeepWorkspace ==
    [][files' # files => (rst.pc = "write" /\ ops' = ops)]_vars

----------------------------------------------------------------------------
(* saveSnapshot and loadSnapshot on their own *)

\* Snapshot objects saveSnapshot is given: two identifiers, dates before and
\* after the epoch with and without milliseconds (among them the last
\* millisecond of a leap day), two triggers, no file and two files in both
\* orders, gitCommit absent and present
SampleIds == { generateSnapshotId(StartInstant, 0, <<56>>), FullBackupId(0) }

SampleDates == { <<0 - 1, 500>>, <<951868799, 999>>, DateAt(StartInstant) }

SampleFiles ==
    { <<>>,
      << FileSnapshot("a.ts", "x", 1), FileSnapshot("src/b.ts", "yy", 2) >>,
      << FileSnapshot("src/b.ts", "yy", 2), FileSnapshot("a.ts", "x", 1) >> }

SampleSnapshots ==
    { [Snapshot(id, date, trigger, fs) EXCEPT !.gitCommit = commit] :
        id \in SampleIds, date \in SampleDates, trigger \in {"file_save", "manual"},
        fs \in SampleFiles, commit \in { {}, {"4f2a9c1"} } }

\* saveSnapshot(snapshot) resolves, then loadSnapshot(snapshot.id) is called
\* and resolves
SaveThenLoad(snapshot) ==
    /\ ops < MaxOps
    /\ snapDir' = WriteRecord(snapDir, snapshot)
    /\ api' = [op |-> "saveThenLoad", pc |-> "done", arg |-> snapshot,
               result |-> loadSnapshot(snapDir', snapshot.id)]
    /\ live' = Persisted(live, snapshot.id)
    /\ ops' = ops + 1
    /\ UNCHANGED <<files, dirs, faults, now, tz, events, filesChanged, cap, cap2, rst, issued, ticks, watching, webview, diffPanel, extension>>

InitRoundTrip == Init /\ faults = NoFault /\ tz = 0 /\ WatchingFiles

NextRoundTrip == \E snapshot \in SampleSnapshots : SaveThenLoad(snapshot)

SpecRoundTrip == InitRoundTrip /\ [][NextRoundTrip]_vars

\* C11: loadSnapshot(s.id) after saveSnapshot(s) returns a snapshot equal
\* to s in id, trigger, files (order, path, content, size) and gitCommit
\* (absent stays absent), with a timestamp of the same instant
C11_RoundTrip ==
    api.op = "saveThenLoad" =>
        /\ api.result # Null
        /\ api.result.id = api.arg.id
        /\ api.result.trigger = api.arg.trigger
        /\ api.result.files = api.arg.files
        /\ api.result.gitCommit = api.arg.gitCommit
        /\ api.result.timestamp = api.arg.timestamp

\* C11 witness: a snapshot of two files with a gitCommit and a date with
\* milliseconds was saved over an earlier record of its identifier and
\* loaded
C11_Witness ==
    /\ api.op = "saveThenLoad"
    /\ api.arg.id = FullBackupId(0)
    /\ Len(api.arg.files) = 2
    /\ api.arg.gitCommit # {}
    /\ api.arg.timestamp[2] # 0
    /\ api.result # Null

----------------------------------------------------------------------------
(* Properties of restoreSnapshot *)

\* the record stored under the identifier the running (or last) restore
\* gave its backup
BackupRecord == loadSnapshot(snapDir, rst.backupId)

\* the paths of a sequence of FileSnapshots
PathsOf(fs) == { fs[i].path : i \in DOMAIN fs }

\* the files the backup walk tracks that existed when the restore was called
PreTrackable ==
    { p \in Paths : rst.pre.files[p] # NoFile /\ ~BackupIgnored(Chars(p)) }

\* the restore has changed the workspace
WorkspaceTouched == files # rst.pre.files \/ dirs # rst.pre.dirs

\* the restore found its target and returned without reaching its first
\* write: the backup step failed, in the walk or in the record's write
BackupFailed ==
    /\ rst.pc = "done"
    /\ rst.snapshot # Null
    /\ rst.idx = 0

\* C1: during a restore of an existing snapshot the workspace (files and
\* directories) is not changed before the backup record is in the store, and
\* a restore whose walk or backup write failed returns failure having
\* changed nothing in the workspace
C1_BackupBeforeWrites ==
    rst.pc # "idle" =>
        /\ WorkspaceTouched =>
              /\ rst.puts = 1
              /\ BackupRecord # Null
              /\ BackupRecord.files = rst.fileSnapshots
        /\ BackupFailed =>
              /\ rst.result.success = FALSE
              /\ ~WorkspaceTouched

\* C1 witness: a restore that has its backup in the store has created a
\* directory and written a file
C1_Witness ==
    /\ rst.pc = "write"
    /\ dirs # rst.pre.dirs
    /\ files # rst.pre.files

OtherBackupsUntouched ==
    \A n \in DOMAIN snapDir :
        (StartsWith(n, BackupMarker) /\ n # rst.backupId \o JsonSuffix)
            => (n \in DOMAIN rst.pre.store /\ snapDir[n] = rst.pre.store[n])

\* C3 as claimed: every restore whose target resolved has added exactly one
\* backup record, with trigger manual
C3_AlwaysOneNewBackup ==
    (rst.pc = "done" /\ rst.snapshot # Null) =>
        /\ Cardinality({ n \in DOMAIN snapDir \ DOMAIN rst.pre.store : StartsWith(n, BackupMarker) }) = 1
        /\ BackupRecord # Null
        /\ BackupRecord.trigger = "manual"

\* C3 as amended: a restore whose target resolved writes exactly one backup
\* record, with trigger manual and a backup-marked identifier, whether the
\* file writes then succeed or fail and whatever the target holds, unless
\* the walk or the record's write fails: then it writes none
C3_OneBackupUnlessBackupFails ==
    (rst.pc \in {"write", "done"} /\ rst.snapshot # Null) =>
        /\ OtherBackupsUntouched
        /\ IF BackupFailed
           THEN /\ rst.puts = 0
                /\ \A n \in DOMAIN snapDir :
                      StartsWith(n, BackupMarker) => (n \in DOMAIN rst.pre.store /\ snapDir[n] = rst.pre.store[n])
           ELSE /\ rst.puts = 1
                /\ StartsWith(rst.backupId, BackupMarker)
                /\ BackupRecord # Null
                /\ BackupRecord.id = rst.backupId
                /\ BackupRecord.trigger = "manual"
                /\ BackupRecord.files = rst.fileSnapshots

\* C3 witness: a restore of a snapshot without files has succeeded, and its
\* backup is in the store
C3_Witness ==
    /\ rst.pc = "done"
    /\ rst.snapshot # Null
    /\ rst.snapshot.files = <<>>
    /\ rst.result.success
    /\ BackupRecord # Null

\* C4: a restore of an identifier that has no record, or a record that does
\* not parse, returns { success: false, error: 'Snapshot not found' } and
\* leaves the workspace and the snapshots directory as they were
C4_NotFoundChangesNothing ==
    (rst.pc \notin {"idle", "load"} /\ loadSnapshot(rst.pre.store, rst.target) = Null) =>
        /\ rst.pc = "done"
        /\ rst.result = [kind |-> "outcome", success |-> FALSE, backupId |-> {},
                         error |-> {"Snapshot not found"}]
        /\ rst.puts = 0
        /\ files = rst.pre.files
        /\ dirs = rst.pre.dirs
        /\ snapDir = rst.pre.store

\* C4 witness: a restore of the record that does not parse has returned
C4_Witness ==
    /\ rst.pc = "done"
    /\ rst.target = GarbageId(tz)
    /\ rst.target \o JsonSuffix \in DOMAIN snapDir

\* C5: after a successful restore every file of the target snapshot exists
\* in the workspace with the captured content, and the outcome's backupId
\* names a record that loadSnapshot resolves
C5_SuccessMeansRestored ==
    (rst.pc = "done" /\ rst.result.success) =>
        /\ \A i \in DOMAIN rst.snapshot.files :
              files[rst.snapshot.files[i].path] = rst.snapshot.files[i].content
        /\ rst.result.backupId # {}
        /\ \A id \in rst.result.backupId : loadSnapshot(snapDir, id) # Null

\* C5 witness: a successful restore of a snapshot of several files has
\* changed the workspace
C5_Witness ==
    /\ rst.pc = "done"
    /\ rst.result.success
    /\ Len(rst.snapshot.files) >= 2
    /\ files # rst.pre.files

\* C6: when the write of the k-th file fails, the files before it hold the
\* restored content, the k-th and the files after it are as they were
\* before the restore, the outcome is a failure with a message, and the
\* backup record is still in the store
C6_PartialRestore ==
    (rst.pc = "done" /\ rst.snapshot # Null /\ rst.idx \in DOMAIN rst.snapshot.files) =>
        LET fs == rst.snapshot.files
            k  == rst.idx
        IN  /\ ~Writable(fs[k].path)
            /\ rst.result.error # {}
            /\ \A i \in 1..(k - 1) : files[fs[i].path] = fs[i].content
            /\ \A i \in k..Len(fs) : files[fs[i].path] = rst.pre.files[fs[i].path]
            /\ rst.result.success = FALSE
            /\ rst.result.backupId = {}
            /\ rst.puts = 1
            /\ BackupRecord # Null
            /\ BackupRecord.files = rst.fileSnapshots

\* C6 witness: the second of three writes has failed, after the first
\* changed its file
C6_Witness ==
    /\ rst.pc = "done"
    /\ rst.result.success = FALSE
    /\ rst.idx = 2
    /\ Len(rst.snapshot.files) = 3
    /\ files[rst.snapshot.files[1].path] # rst.pre.files[rst.snapshot.files[1].path]

\* C7 as claimed: whenever the restore has persisted a backup, its outcome
\* carries the backup's identifier
C7_OutcomeAlwaysNamesBackup ==
    (rst.pc = "done" /\ rst.puts = 1) => rst.result.backupId = {rst.backupId}

\* C7 as amended: the outcome carries the backup's identifier exactly when
\* it reports success; a failure carries an error message and no
\* identifier, also when the backup was persisted
C7_OutcomeNamesBackupOnSuccess ==
    rst.pc = "done" =>
        IF rst.result.success
        THEN /\ rst.puts = 1
             /\ rst.result.backupId = {rst.backupId}
             /\ rst.result.error = {}
        ELSE /\ rst.result.backupId = {}
             /\ rst.result.error # {}

\* C7 witness: a restore has failed after it persisted its backup
C7_Witness ==
    /\ rst.pc = "done"
    /\ rst.puts = 1
    /\ rst.result.success = FALSE

----------------------------------------------------------------------------
(* Properties of the identifiers *)

\* C8 as claimed: getAllSnapshotIds lists snapshots created in different
\* seconds, by captures or by backups, newest first
C8_ListingNewestFirst ==
    \A entries \in Readdir(snapDir) :
        LET listed == getAllSnapshots(snapDir, entries).value
        IN  /\ \A i, j \in DOMAIN listed :
                  (i < j /\ listed[i].timestamp[1] # listed[j].timestamp[1])
                      => listed[i].timestamp[1] > listed[j].timestamp[1]
            /\ \A i \in DOMAIN listed :
                  \E k \in DOMAIN getAllSnapshotIds(entries).value :
                      getAllSnapshotIds(entries).value[k] = listed[i].id

\* C9 as claimed: of two identifiers generated in different seconds, the
\* earlier one is the smaller in lexicographic order, in every time zone
C9_IdsOrderedByTime ==
    \A a, b \in DOMAIN issued : a[1] < b[1] => StrLess(a[2], b[2])

\* C10 as claimed: no two calls of generateSnapshotId return the same
\* identifier
C10_IdsDistinct ==
    /\ \A k \in DOMAIN issued : issued[k] = 1
    /\ \A a, b \in DOMAIN issued : a # b => a[2] # b[2]

----------------------------------------------------------------------------
(* Properties of the watcher and of the ignore rules *)

\* C22 as claimed: a file of the workspace is left out of the backup
\* snapshot exactly when the watcher ignores a file-change event for its path
C22_SameIgnoreRule ==
    \A p \in Paths :
        files[p] # NoFile => ((p \notin WalkSet) <=> shouldIgnoreFile(Chars(p)))

\* the file names of the records a step writes
Written == { n \in DOMAIN snapDir' : n \notin DOMAIN snapDir \/ snapDir'[n] # snapDir[n] }

\* C29: a record createBackupBeforeRestore writes has an identifier that
\* starts with the backup marker and the trigger manual; a record the
\* capture path writes has an identifier without the marker and the trigger
\* file_save or file_create; every persisted record whose identifier starts
\* with the marker has the trigger manual
C29_MarkerMeansBackup ==
    [][/\ \A n \in Written :
             LET record == snapDir'[n]
             IN  IF rst.pc = "read"
                 THEN /\ StartsWith(record.id, BackupMarker)
                      /\ record.trigger = "manual"
                 ELSE /\ cap.pc = "save"
                      /\ ~StartsWith(record.id, BackupMarker)
                      /\ record.trigger \in {"file_save", "file_create"}
       /\ \A n \in DOMAIN snapDir' :
             (snapDir'[n] # Garbage /\ StartsWith(snapDir'[n].id, BackupMarker)) =>
                 snapDir'[n].trigger = "manual"]_vars

\* C29 witness: the snapshots directory holds a record of the capture path
\* and the backup a restore has just written
C29_Witness ==
    /\ rst.pc = "done"
    /\ rst.puts = 1
    /\ StartsWith(rst.backupId, BackupMarker)
    /\ rst.backupId \o JsonSuffix \in DOMAIN snapDir
    /\ \E n \in DOMAIN snapDir :
          /\ snapDir[n] # Garbage
          /\ snapDir[n].trigger = "file_save"
          /\ ~StartsWith(snapDir[n].id, BackupMarker)

----------------------------------------------------------------------------
(* Failures of createSnapshot and of restoreSnapshot *)

\* the step is the one in which createSnapshot's saveSnapshot settles for a
\* client, and the one in which createBackupBeforeRestore's does
ClientSaveSettles == cap.pc = "save" /\ cap.caller = "client"
BackupSaveSettles == rst.pc = "read" /\ rst'.pc # "read"

\* C27 as claimed: when the record's writeFile fails, the caller of
\* createSnapshot gets the error (a rejection it can tell from other
\* outcomes), and the caller of restoreSnapshot a failure with the error
C27_WriteErrorPropagates ==
    [][/\ (ClientSaveSettles /\ faults.storeFull) =>
             /\ api'.pc = "done"
             /\ api'.result.kind = "rejected"
       /\ (BackupSaveSettles /\ faults.storeFull) =>
             /\ rst'.pc = "done"
             /\ rst'.result.success = FALSE
             /\ rst'.result.error # {}]_vars

\* C27 amended: when the record's writeFile fails, createSnapshot returns
\* the absent value, the one it returns when the file cannot be read, and no
\* record is written; restoreSnapshot returns a failure with the error's
\* message and without a backup identifier, and writes no workspace file;
\* neither reports success
C27_WriteErrorReported ==
    [][/\ (ClientSaveSettles /\ faults.storeFull) =>
             /\ api'.pc = "done"
             /\ api'.result = Null
             /\ snapDir' = snapDir
       /\ (BackupSaveSettles /\ faults.storeFull) =>
             /\ rst'.pc = "done"
             /\ rst'.result = Outcome(FALSE, {}, {"ENOSPC: write"})
             /\ snapDir' = snapDir
             /\ files' = files]_vars

\* C27 witness: createSnapshot of a file that can be read has returned the
\* absent value because its record could not be written
C27_Witness ==
    /\ faults.storeFull
    /\ api.op = "createSnapshot"
    /\ api.pc = "done"
    /\ api.arg = "a.ts"
    /\ api.result = Null
    /\ DOMAIN issued # {}


----------------------------------------------------------------------------
(* The extension with the records watched *)

\* the watcher is told of the records too, the user may delete a file
\* behind a capture, createSnapshot is also called directly (with the
\* trigger manual, so that file_save and file_create tell the records of the
\* watcher's captures), and the restores are of the earlier backup of an empty
\* workspace and of the records the watcher's captures have written
Restorable ==
    {EmptyBackupId(tz)} \cup
    { ReplaceFirst(n, JsonSuffix) :
        n \in { k \in DOMAIN snapDir : snapDir[k] # Garbage /\ snapDir[k].trigger # "manual" } }

InitWatch == Init /\ tz = 0 /\ watching = {"files", "records"} /\ faults = NoFault

\* the steps of the extension: the host's event loop delivers an event, or
\* resumes a createSnapshot or restoreSnapshot call whose await has settled
ExtensionStep ==
    \/ \E e \in events : OnFileChanged(e)
    \/ CaptureRead
    \/ CaptureStat
    \/ CaptureSave
    \/ RestoreLoad
    \/ RestoreWalk
    \/ RestoreRead
    \/ RestoreSave
    \/ RestoreWrite
    \/ RestoreReturn

NextWatch ==
    \/ \E p \in Edited : EditorSave(p, "yy")
    \/ \E p \in Deleted : UserDelete(p)
    \/ \E p \in Deleted : DeleteBehind(p)
    \/ \E id \in Restorable : RestoreCall(id)
    \/ \E p \in Deleted : CreateCall(p, "manual")
    \/ ExtensionStep

SpecWatch == InitWatch /\ [][NextWatch]_vars

\* the event loop leaves no delivery and no settled await waiting for ever
SpecWatchFair == SpecWatch /\ WF_vars(ExtensionStep)

----------------------------------------------------------------------------
(* The watcher's captures *)

\* the step delivers an event to onFileChanged, and the event delivered
Delivers == events' # events /\ events' \subseteq events
Delivered == CHOOSE e \in events : e \notin events'

\* the step is the one in which the saveSnapshot of a capture the watcher
\* started settles
WatcherSaveSettles == cap.pc = "save" /\ cap.caller = "watcher" /\ cap'.pc = "idle"

\* C21: an event for a path that is not ignored starts a capture exactly
\* when its kind is created or changed, and the capture is of the event's
\* path with trigger file_create for created and file_save for changed; the
\* capture writes at most one record and is then over, and the record holds
\* one file snapshot, of that path; a deleted event starts no capture and
\* writes no record, and every record written outside a restore is written by
\* the capture of a created or changed event
C21_CaptureOnCreatedOrChanged ==
    [][/\ Delivers =>
             LET e == Delivered
             IN  /\ snapDir' = snapDir
                 /\ ~shouldIgnoreFile(RelativePath(e)) =>
                       /\ (cap'.pc = "read") <=> (e.kind \in {"created", "changed"})
                       /\ e.kind = "deleted" => cap' = cap
                       /\ cap'.pc = "read" =>
                             /\ cap'.path = e.path
                             /\ e.kind = "created" => cap'.trigger = "file_create"
                             /\ e.kind = "changed" => cap'.trigger = "file_save"
       /\ WatcherSaveSettles =>
             /\ Cardinality(Written) <= 1
             /\ \A n \in Written :
                   LET record == snapDir'[n]
                   IN  /\ Len(record.files) = 1
                       /\ record.files[1].path = cap.event.path
                       /\ record.trigger =
                             (IF cap.event.kind = "created" THEN "file_create" ELSE "file_save")
       /\ (Written # {} /\ rst.pc # "read" /\ cap.caller = "watcher") =>
             /\ WatcherSaveSettles
             /\ cap.event.kind \in {"created", "changed"}]_vars

\* C21 witness: the user deleted src/b.ts and saved it anew; the watcher
\* was delivered the deleted event, which it counted, then the created one,
\* and the only record of the capture path is the one of the created event,
\* holding the one file created
C21_Witness ==
    /\ filesChanged = 2
    /\ cap.pc = "idle"
    /\ events = {}
    /\ rst.pc = "idle"
    /\ files["src/b.ts"] # NoFile
    /\ \E n \in DOMAIN snapDir :
          /\ snapDir[n] # Garbage
          /\ snapDir[n].trigger = "file_create"
          /\ Len(snapDir[n].files) = 1
          /\ snapDir[n].files[1].path = "src/b.ts"
    /\ ~\E n \in DOMAIN snapDir : snapDir[n] # Garbage /\ snapDir[n].trigger = "file_save"


----------------------------------------------------------------------------
(* The storage root is outside the tracking *)

\* the records the capture path has written, and the extension at rest
CaptureRecords ==
    { n \in DOMAIN snapDir :
        /\ snapDir[n] # Garbage
        /\ snapDir[n].trigger \in {"file_save", "file_create"} }
AtRest == events = {} /\ cap.pc = "idle" /\ rst.pc \in {"idle", "done"}

\* C23: the event of a record written under .hindsight is dropped by
\* onFileChanged: it is not counted, starts no capture and writes nothing;
\* the walk of a backup collects no record; the capture path has written at
\* most one record per event of the workspace delivered; and once the user's
\* commands are over the extension comes to rest for good: no event
\* undelivered, no capture and no restore in flight
C23_NoFeedback ==
    /\ [][/\ (Delivers /\ Delivered.record # <<>>) =>
                /\ cap' = cap
                /\ filesChanged' = filesChanged
                /\ snapDir' = snapDir
          /\ cap'.caller = "watcher" => cap'.event.record = <<>>
          /\ rst'.walkedRecords = {}
          /\ \A n \in Written : \A i \in 1..Len(snapDir'[n].files) :
                snapDir'[n].files[i].path \in Paths
          /\ Cardinality(CaptureRecords') <= filesChanged']_vars
    /\ <>[]AtRest

\* C23 witness: a restore has succeeded, its backup's record and the
\* records of the captures its writes set off were reported to the watcher,
\* and the extension is at rest with one record per event counted
C23_Witness ==
    /\ AtRest
    /\ "records" \in watching
    /\ rst.pc = "done"
    /\ rst.result.success
    /\ rst.backupId \o JsonSuffix \in DOMAIN snapDir
    /\ filesChanged >= 2
    /\ Cardinality(CaptureRecords) = filesChanged


----------------------------------------------------------------------------
(* Failures of createSnapshot's reads *)

\* the step is the one in which createSnapshot's readFile or stat rejects
ReadRejects == cap.pc \in {"read", "stat"} /\ cap'.pc = "idle"

\* C28: when readFile or stat rejects, createSnapshot is over and has
\* resolved with the absent value (a direct caller holds it as the result of
\* a call that returned); no identifier was generated, no record written, no
\* event raised, and the store, the workspace and the restore are as they
\* were; the watcher is idle again, so that every event still undelivered
\* can be delivered
C28_ReadFailureGivesNull ==
    [][ReadRejects =>
          /\ cap' = CapIdle
          /\ cap.caller = "client" =>
                /\ api'.pc = "done"
                /\ api'.op = "createSnapshot"
                /\ api'.result = Null
          /\ cap.caller = "watcher" => api' = api
          /\ issued' = issued
          /\ snapDir' = snapDir
          /\ live' = live
          /\ files' = files
          /\ events' = events
          /\ rst' = rst]_vars

\* C28 witness: src/b.ts was deleted behind the direct call that captures
\* it, the call returned the absent value and left no record, and the
\* watcher has since counted the deleted event
C28_Witness ==
    /\ api.op = "createSnapshot"
    /\ api.pc = "done"
    /\ api.result = Null
    /\ api.arg = "src/b.ts"
    /\ files["src/b.ts"] = NoFile
    /\ DOMAIN issued = {}
    /\ snapDir = EarlierStore(tz)
    /\ filesChanged = 1
    /\ AtRest


----------------------------------------------------------------------------
(* SnapshotManager's constructor *)

\* fs.existsSync(d) and fs.mkdirSync(d, {recursive: true}) on the
\* directories ds: mkdir creates d and its missing ancestors
existsSync(ds, d) == d \in ds
mkdirSync(ds, d) == ds \cup (IF d = snapshotsDir THEN {atlasDir, snapshotsDir} ELSE {d})

\* a bootstrap that stops at the storage root
EnsureRootOnly(ds) == IF existsSync(ds, atlasDir) THEN ds ELSE mkdirSync(ds, atlasDir)

\* ensureDirectoriesExist: the directories afterwards
ensureDirectoriesExist(ds) ==
    LET root == IF existsSync(ds, atlasDir) THEN ds ELSE mkdirSync(ds, atlasDir)
    IN  IF existsSync(root, snapshotsDir) THEN root ELSE mkdirSync(root, snapshotsDir)

\* the directories ensureDirectoriesExist calls mkdirSync for (and logs as
\* created), in order
MkdirCalls(ds) ==
    (IF existsSync(ds, atlasDir) THEN <<>> ELSE <<atlasDir>>) \o
    (IF existsSync(ds, snapshotsDir) THEN <<>> ELSE <<snapshotsDir>>)

\* new SnapshotManager(workspacePath): the FileWatcher's constructor builds
\* one, activate another.  The client's record keeps the number of the call
\* and the directories mkdirSync was called for
Construct ==
    /\ ops < MaxOps
    /\ Returned
    /\ dirs' = ensureDirectoriesExist(dirs)
    /\ api' = Return("construct", ops + 1, MkdirCalls(dirs))
    /\ ops' = ops + 1
    /\ UNCHANGED <<files, faults, snapDir, now, tz, events, filesChanged, cap, cap2, rst, issued, ticks, live, watching, webview, diffPanel, extension>>

\* the user removes directory d of the storage, and what it holds
RemoveStore(d) ==
    /\ ops < MaxOps
    /\ Returned
    /\ d \in dirs
    /\ dirs' = dirs \ (IF d = atlasDir THEN {atlasDir, snapshotsDir} ELSE {d})
    /\ snapDir' = EmptyDir
    /\ live' = {}
    /\ ops' = ops + 1
    /\ UNCHANGED <<files, faults, now, tz, events, filesChanged, cap, cap2, rst, issued, ticks, api, watching, webview, diffPanel, extension>>

\* before the extension is activated: the workspace has no storage root, or
\* a storage root without its snapshots directory, or the storage earlier
\* sessions left
InitBoot ==
    /\ files = [p \in Paths |-> IF p = "yarn.lock" THEN NoFile ELSE "x"]
    /\ \/ dirs \in {{"src", "dist"}, {"src", "dist", atlasDir}} /\ snapDir = EmptyDir
       \/ dirs = {"src", "dist", atlasDir, snapshotsDir} /\ snapDir = StrayFile @@ EarlierStore(0)
    /\ faults = NoFault
    /\ now = StartInstant
    /\ tz = 0
    /\ watching = {}
    /\ events = {}
    /\ filesChanged = 0
    /\ cap = CapIdle
    /\ cap2 = CapIdle
    /\ webview = WebviewLoaded
    /\ diffPanel = NoDiffPanel
    /\ extension = Activated(TRUE)
    /\ rst = RstIdle
    /\ issued = [k \in {} |-> 0]
    /\ ops = 0
    /\ ticks = 0
    /\ api = ApiIdle
    /\ live = IF snapDir = EmptyDir
              THEN {}
              ELSE {GarbageId(0), EmptyBackupId(0), FullBackupId(0)}

NextBoot ==
    \/ Construct
    \/ \E d \in {atlasDir, snapshotsDir} : RemoveStore(d)
    \/ \E p \in Edited : CreateCall(p, "file_save")
    \/ CaptureRead
    \/ CaptureStat
    \/ CaptureSave

SpecBoot == InitBoot /\ [][NextBoot]_vars

\* the step constructs a SnapshotManager
Constructs == ops' # ops /\ api'.op = "construct" /\ api'.arg = ops'

\* C30: constructing a SnapshotManager leaves the storage root and its
\* snapshots directory in existence, creates those of the two that were
\* absent and nothing else, and changes no record and no file; where both
\* exist already (a manager was constructed before on this workspace) it
\* creates nothing and changes nothing
C30_BootstrapIdempotent ==
    [][Constructs =>
          /\ atlasDir \in dirs'
          /\ snapshotsDir \in dirs'
          /\ dirs' = dirs \cup {atlasDir, snapshotsDir}
          /\ Range(api'.result) = {atlasDir, snapshotsDir} \ dirs
          /\ snapDir' = snapDir
          /\ live' = live
          /\ files' = files
          /\ ensureDirectoriesExist(dirs') = dirs'
          /\ MkdirCalls(dirs') = <<>>
          /\ {atlasDir, snapshotsDir} \subseteq dirs =>
                /\ dirs' = dirs
                /\ api'.result = <<>>]_vars


\* C30 witness: the workspace had no snapshots directory; a first manager
\* was constructed, which created it, then a second one, which created
\* nothing
C30_Witness ==
    /\ api.op = "construct"
    /\ api.pc = "done"
    /\ api.arg = 2
    /\ api.result = <<>>
    /\ {atlasDir, snapshotsDir} \subseteq dirs
    /\ snapDir = EmptyDir


----------------------------------------------------------------------------
(* DiffViewer *)

\* the line feed
Newline == 10

\* the index of the first line feed of text, or 0
RECURSIVE IndexOfNewline(_, _)
IndexOfNewline(text, from) ==
    IF from > Len(text) THEN 0
    ELSE IF text[from] = Newline THEN from
    ELSE IndexOfNewline(text, from + 1)

\* text.split('\n'): the fragments between the line feeds; the text after
\* a final line feed is an empty fragment
RECURSIVE Split(_)
Split(text) ==
    LET i == IndexOfNewline(text, 1)
    IN  IF i = 0 THEN <<text>>
        ELSE <<SubSeq(text, 1, i - 1)>> \o Split(SubSeq(text, i + 1, Len(text)))

\* the tokens Diff.diffLines compares: the lines, each with its line feed
RECURSIVE Tokenize(_)
Tokenize(text) ==
    LET i == IndexOfNewline(text, 1)
    IN  IF text = <<>> THEN <<>>
        ELSE IF i = 0 THEN <<text>>
        ELSE <<SubSeq(text, 1, i)>> \o Tokenize(SubSeq(text, i + 1, Len(text)))

\* the length of a longest common subsequence of two token sequences
RECURSIVE LcsLength(_, _)
LcsLength(a, b) ==
    IF a = <<>> \/ b = <<>> THEN 0
    ELSE IF Head(a) = Head(b) THEN 1 + LcsLength(Tail(a), Tail(b))
    ELSE LET left  == LcsLength(Tail(a), b)
             right == LcsLength(a, Tail(b))
         IN  IF left >= right THEN left ELSE right

\* a shortest edit script from a to b, one step per token, a removal
\* coming before an insertion where either will do
RECURSIVE EditScript(_, _)
EditScript(a, b) ==
    IF a = <<>> /\ b = <<>> THEN <<>>
    ELSE IF a = <<>> THEN <<[kind |-> "added", value |-> Head(b)]>> \o EditScript(a, Tail(b))
    ELSE IF b = <<>> THEN <<[kind |-> "removed", value |-> Head(a)]>> \o EditScript(Tail(a), b)
    ELSE IF Head(a) = Head(b)
         THEN <<[kind |-> "unchanged", value |-> Head(a)]>> \o EditScript(Tail(a), Tail(b))
    ELSE IF LcsLength(Tail(a), b) >= LcsLength(a, Tail(b))
         THEN <<[kind |-> "removed", value |-> Head(a)]>> \o EditScript(Tail(a), b)
    ELSE <<[kind |-> "added", value |-> Head(b)]>> \o EditScript(a, Tail(b))

\* consecutive steps of one kind joined into one change
RECURSIVE Changes(_)
Changes(script) ==
    IF Len(script) <= 1 THEN script
    ELSE LET rest == Changes(Tail(script))
         IN  IF Head(script).kind = Head(rest).kind
             THEN <<[kind |-> Head(rest).kind, value |-> Head(script).value \o Head(rest).value]>>
                  \o Tail(rest)
             ELSE <<Head(script)>> \o rest

\* Diff.diffLines(oldContent, newContent): the changes, in order; equal
\* texts give one unchanged change holding the text
diffLines(oldContent, newContent) ==
    IF Tokenize(oldContent) = Tokenize(newContent)
    THEN <<[kind |-> "unchanged", value |-> newContent]>>
    ELSE Changes(EditScript(Tokenize(oldContent), Tokenize(newContent)))

\* a rendering that drops only the fragment after a final line feed
LinesButLast(value) ==
    LET fragments == Split(value)
    IN  IF fragments[Len(fragments)] = <<>>
        THEN SubSeq(fragments, 1, Len(fragments) - 1)
        ELSE fragments

\* part.value.split('\n').filter(line => line !== '')
Lines(value) == SelectSeq(Split(value), LAMBDA line : line # <<>>)

\* generateDiffHtml: one div per line, of the class of its change
RECURSIVE generateDiffHtml(_)
generateDiffHtml(diffResult) ==
    IF diffResult = <<>> THEN <<>>
    ELSE LET part  == Head(diffResult)
             lines == Lines(part.value)
         IN  [i \in 1..Len(lines) |-> [class |-> part.kind, line |-> lines[i]]]
             \o generateDiffHtml(Tail(diffResult))

\* files.find(f => f.path === filePath): the first file of that path, if any
RECURSIVE Find(_, _)
Find(fs, filePath) ==
    IF fs = <<>> THEN {}
    ELSE IF Head(fs).path = filePath THEN {Head(fs)}
    ELSE Find(Tail(fs), filePath)

\* allFilePaths: the paths in the order a Set keeps them, that of their
\* first insertion
RECURSIVE Inserted(_, _)
Inserted(paths, fs) ==
    IF fs = <<>> THEN paths
    ELSE Inserted(IF Head(fs).path \in Range(paths) THEN paths ELSE Append(paths, Head(fs).path),
                  Tail(fs))
allFilePaths(oldSnapshot, newSnapshot) == Inserted(Inserted(<<>>, oldSnapshot.files), newSnapshot.files)

\* the content of a file that may be absent: oldFile?.content || ''
ContentOrEmpty(file) == IF file = {} THEN <<>> ELSE (CHOOSE f \in file : TRUE).content

\* one element of diffs; a null content is the empty set
DiffOf(filePath, oldSnapshot, newSnapshot) ==
    LET oldFile == Find(oldSnapshot.files, filePath)
        newFile == Find(newSnapshot.files, filePath)
        oldContent == ContentOrEmpty(oldFile)
        newContent == ContentOrEmpty(newFile)
        diffResult == diffLines(oldContent, newContent)
    IN  [path |-> filePath,
         oldContent |-> IF oldFile # {} THEN {oldContent} ELSE {},
         newContent |-> IF newFile # {} THEN {newContent} ELSE {},
         diffResult |-> diffResult,
         diffHtml |-> generateDiffHtml(diffResult)]

\* a status that takes an empty content for an absent file
StatusByContent(diff) ==
    IF diff.oldContent \in {{}, {<<>>}} THEN "added"
    ELSE IF diff.newContent \in {{}, {<<>>}} THEN "deleted"
    ELSE "modified"

\* generateFileDiffHtml: status
Status(diff) ==
    IF diff.oldContent = {} THEN "added"
    ELSE IF diff.newContent = {} THEN "deleted"
    ELSE "modified"

\* a viewer that shows the unchanged files too
NeverSkipped(diff) == FALSE

\* generateFileDiffHtml: return '' (skip unchanged files)
Skipped(diff) ==
    /\ diff.oldContent # {}
    /\ diff.newContent # {}
    /\ diff.oldContent = diff.newContent

\* generateFileDiffHtml: the block shown for one file
generateFileDiffHtml(diff) ==
    [path |-> diff.path, status |-> Status(diff), diffResult |-> diff.diffResult,
     diffHtml |-> diff.diffHtml]

\* _getHtmlForDiff: the blocks of the page, in order; a skipped file's
\* empty string leaves nothing in the join
RECURSIVE FileDiffs(_, _, _)
FileDiffs(paths, oldSnapshot, newSnapshot) ==
    IF paths = <<>> THEN <<>>
    ELSE LET diff == DiffOf(Head(paths), oldSnapshot, newSnapshot)
         IN  (IF Skipped(diff) THEN <<>> ELSE <<generateFileDiffHtml(diff)>>)
             \o FileDiffs(Tail(paths), oldSnapshot, newSnapshot)
getHtmlForDiff(oldSnapshot, newSnapshot) ==
    FileDiffs(allFilePaths(oldSnapshot, newSnapshot), oldSnapshot, newSnapshot)

\* the texts compared: empty, one line, one line and its line feed, two
\* lines, two lines with a blank line between them
DiffTexts ==
    { <<>>, <<97>>, <<98>>, <<97, 10>>, <<97, 10, 98>>, <<97, 10, 10, 98>> }

\* the snapshots compared: a.ts absent or holding one of the texts, src/b.ts
\* absent or holding one line
FilesOf(p, texts) == {<<>>} \cup { <<FileSnapshot(p, t, Len(t))>> : t \in texts }
DiffSnapshots ==
    { Snapshot(MissingId, DateAt(StartInstant), "manual", a \o b) :
        a \in FilesOf("a.ts", DiffTexts), b \in FilesOf("src/b.ts", {<<97>>, <<98>>}) }

\* showDiff once both snapshots are loaded: the page is built
ShowDiff ==
    /\ ops < MaxOps
    /\ api.op = "none"
    /\ api' = [api EXCEPT !.op = "showDiff", !.pc = "done",
                          !.result = getHtmlForDiff(api.arg.old, api.arg.new)]
    /\ ops' = ops + 1
    /\ UNCHANGED <<files, dirs, faults, snapDir, now, tz, events, filesChanged, cap, cap2, rst, issued, ticks, live, watching, webview, diffPanel, extension>>

\* the viewer is asked for the diff of two snapshots
InitDiff ==
    /\ files = [p \in Paths |-> IF p \in {"yarn.lock", "tsconfig.json"} THEN NoFile ELSE "x"]
    /\ dirs = {"src", "dist", atlasDir, snapshotsDir}
    /\ faults = NoFault
    /\ now = StartInstant
    /\ tz = 0
    /\ snapDir = EmptyDir
    /\ watching = {}
    /\ events = {}
    /\ filesChanged = 0
    /\ cap = CapIdle
    /\ cap2 = CapIdle
    /\ webview = WebviewLoaded
    /\ diffPanel = NoDiffPanel
    /\ extension = Activated(TRUE)
    /\ rst = RstIdle
    /\ issued = [k \in {} |-> 0]
    /\ ops = 0
    /\ ticks = 0
    /\ \E old \in DiffSnapshots, new \in DiffSnapshots :
          api = [ApiIdle EXCEPT !.arg = [old |-> old, new |-> new]]
    /\ live = {}

NextDiff == ShowDiff

SpecDiff == InitDiff /\ [][NextDiff]_vars


----------------------------------------------------------------------------
(* Properties of the diff *)

\* the paths of a snapshot, the content it holds for one of them, and the
\* values of the changes of one kind, joined in order
PathsIn(snapshot) == { snapshot.files[i].path : i \in DOMAIN snapshot.files }
ContentIn(snapshot, p) == ContentOrEmpty(Find(snapshot.files, p))
RECURSIVE Joined(_, _)
Joined(diffResult, kinds) ==
    IF diffResult = <<>> THEN <<>>
    ELSE (IF Head(diffResult).kind \in kinds THEN Head(diffResult).value ELSE <<>>)
         \o Joined(Tail(diffResult), kinds)

\* the paths the two snapshots hold with the same content
SameIn(old, new) ==
    { p \in PathsIn(old) \cap PathsIn(new) : ContentIn(old, p) = ContentIn(new, p) }

\* C24: the page has one block per path of the union of the two snapshots'
\* paths, but none for a path both hold with the same content; the block of
\* a path the old snapshot lacks is added, and its changes are its whole
\* content, all added; the block of a path the new snapshot lacks is
\* deleted, its whole content removed; the block of a path both hold with
\* different contents, an empty one included, is modified
C24_DiffClassifies ==
    api.op = "showDiff" =>
        LET old == api.arg.old
            new == api.arg.new
            blocks == api.result
        IN  /\ { blocks[i].path : i \in DOMAIN blocks } =
                   (PathsIn(old) \cup PathsIn(new)) \ SameIn(old, new)
            /\ Len(blocks) = Cardinality({ blocks[i].path : i \in DOMAIN blocks })
            /\ \A i \in DOMAIN blocks :
                  LET p == blocks[i].path
                      changes == blocks[i].diffResult
                  IN  /\ p \notin PathsIn(old) <=> blocks[i].status = "added"
                      /\ (p \in PathsIn(old) /\ p \notin PathsIn(new)) <=> blocks[i].status = "deleted"
                      /\ (p \in PathsIn(old) /\ p \in PathsIn(new)) <=> blocks[i].status = "modified"
                      /\ blocks[i].status = "added" =>
                            /\ Joined(changes, {"added"}) = ContentIn(new, p)
                            /\ Joined(changes, {"removed", "unchanged"}) = <<>>
                            /\ \A j \in DOMAIN blocks[i].diffHtml : blocks[i].diffHtml[j].class = "added"
                      /\ blocks[i].status = "deleted" =>
                            /\ Joined(changes, {"removed"}) = ContentIn(old, p)
                            /\ Joined(changes, {"added", "unchanged"}) = <<>>
                            /\ \A j \in DOMAIN blocks[i].diffHtml : blocks[i].diffHtml[j].class = "removed"
                      /\ blocks[i].status = "modified" => ContentIn(old, p) # ContentIn(new, p)

\* C24 witness: the old snapshot holds a.ts, empty; the new one holds a.ts
\* with a line and src/b.ts: the page shows a.ts modified and src/b.ts added
C24_Witness ==
    /\ api.op = "showDiff"
    /\ PathsIn(api.arg.old) = {"a.ts"}
    /\ ContentIn(api.arg.old, "a.ts") = <<>>
    /\ Len(api.result) = 2
    /\ api.result[1].path = "a.ts"
    /\ api.result[1].status = "modified"
    /\ api.result[2].path = "src/b.ts"
    /\ api.result[2].status = "added"
    /\ api.result[2].diffHtml = <<[class |-> "added", line |-> <<98>>]>>

\* C25 as claimed: when every path the two snapshots both hold has the same
\* content in both, the page has no block
C25_EmptyWhenSharedPathsSame ==
    api.op = "showDiff" =>
        LET old == api.arg.old
            new == api.arg.new
        IN  SameIn(old, new) = PathsIn(old) \cap PathsIn(new) => api.result = <<>>

\* C25 amended: the page has no block exactly when the two snapshots hold
\* the same paths, each with the same content in both; when the shared paths
\* have the same content, the blocks are those of the paths only one of the
\* snapshots holds
C25_EmptyWhenSamePathsAndContents ==
    api.op = "showDiff" =>
        LET old == api.arg.old
            new == api.arg.new
            blocks == api.result
        IN  /\ (blocks = <<>>) <=>
                   /\ PathsIn(old) = PathsIn(new)
                   /\ SameIn(old, new) = PathsIn(old)
            /\ SameIn(old, new) = PathsIn(old) \cap PathsIn(new) =>
                   { blocks[i].path : i \in DOMAIN blocks } =
                       (PathsIn(old) \ PathsIn(new)) \cup (PathsIn(new) \ PathsIn(old))

\* C25 witness: two snapshots that both hold a.ts and src/b.ts, with the
\* same contents, and an empty page
C25_Witness ==
    /\ api.op = "showDiff"
    /\ PathsIn(api.arg.old) = {"a.ts", "src/b.ts"}
    /\ PathsIn(api.arg.new) = {"a.ts", "src/b.ts"}
    /\ ContentIn(api.arg.old, "a.ts") = <<97, 10, 98>>
    /\ api.result = <<>>

\* the lines shown in a block for the changes of some kinds, in order
RECURSIVE Shown(_, _)
Shown(diffHtml, kinds) ==
    IF diffHtml = <<>> THEN <<>>
    ELSE (IF Head(diffHtml).class \in kinds THEN <<Head(diffHtml).line>> ELSE <<>>)
         \o Shown(Tail(diffHtml), kinds)

\* C26 as claimed: in the block of a modified file, the removed and
\* unchanged lines, in order, are the lines of the old content, and the added
\* and unchanged lines, in order, are the lines of the new content, a line
\* being a fragment of the split, blank or not, but for the blank fragment
\* after a final line feed
C26_ScriptCoversEveryLine ==
    api.op = "showDiff" =>
        \A i \in DOMAIN api.result :
            api.result[i].status = "modified" =>
                LET p == api.result[i].path
                IN  /\ Shown(api.result[i].diffHtml, {"removed", "unchanged"}) =
                           LinesButLast(ContentIn(api.arg.old, p))
                    /\ Shown(api.result[i].diffHtml, {"added", "unchanged"}) =
                           LinesButLast(ContentIn(api.arg.new, p))


----------------------------------------------------------------------------
(* The frame of restoreSnapshot *)

\* the paths of the snapshot the restore resolved, if it resolved one
TargetPaths(r) == IF r.snapshot = Null THEN {} ELSE PathsOf(r.snapshot.files)

\* C33: while a restore is in flight the only change to the workspace's
\* files is the write of the file of the target snapshot whose turn it is,
\* with the captured content: no file is deleted, and no file outside the
\* target snapshot is changed; so when the restore has returned, success or
\* failure, every file whose path the target does not hold is as it was when
\* the restore was called, the files the target snapshot is older than too
C33_RestoreFrame ==
    [][/\ (rst.pc \in {"load", "walk", "read", "write"} /\ files' # files) =>
             /\ rst.pc = "write"
             /\ \A p \in Paths :
                   files'[p] # files[p] =>
                       /\ p = rst.snapshot.files[rst.idx].path
                       /\ files'[p] = rst.snapshot.files[rst.idx].content
                       /\ files'[p] # NoFile
       /\ rst'.pc = "done" =>
             \A p \in Paths \ TargetPaths(rst') :
                 files'[p] = rst'.pre.files[p]]_vars

\* C33 witness: the user saved a.ts, the watcher captured it, and a restore
\* of that capture has succeeded: src/b.ts and dist/o.js, which the capture
\* does not hold, are there as they were
C33_Witness ==
    /\ rst.pc = "done"
    /\ rst.result.success
    /\ TargetPaths(rst) = {"a.ts"}
    /\ rst.snapshot.trigger = "file_save"
    /\ files["src/b.ts"] = "x"
    /\ files["dist/o.js"] = "x"


----------------------------------------------------------------------------
(* Undoing a restore through its backup *)

\* the restore that has returned succeeded, and it restored the backup of
\* the successful restore before it, with no edit in between
Undone ==
    /\ rst.pc = "done"
    /\ rst.result.success
    /\ rst.undo # Null
    /\ rst.target = rst.undo.backupId

\* the files the backup walk tracks that existed before the first restore
UndoTrackable ==
    { p \in Paths : rst.undo.files[p] # NoFile /\ ~BackupIgnored(Chars(p)) }

----------------------------------------------------------------------------
(* Saves that interleave with the extension's tasks *)

\* what the user types into a file while a task of the extension is in flight
Draft == "zzz"

\* the user saves content c to p while the watcher has an event to deliver
\* or a createSnapshot or restoreSnapshot call is awaiting its file system
\* call: nothing in the extension keeps the editor from saving
SaveBehind(p, c) ==
    /\ ops < MaxOps
    /\ ~Quiet
    /\ files[p] # c
    /\ files' = [files EXCEPT ![p] = c]
    /\ dirs' = IF DirOf(p) = "." THEN dirs ELSE dirs \cup {DirOf(p)}
    /\ events' = events \cup Raised({WriteEvent(p)})
    /\ ops' = ops + 1
    /\ UNCHANGED <<faults, snapDir, now, tz, filesChanged, cap, cap2, rst, issued, ticks, api, live, watching, webview, diffPanel, extension>>

\* a second passes while a createSnapshot call is in flight
TickBehind ==
    /\ ticks < MaxTicks
    /\ cap.pc # "idle"
    /\ now' = now + 1
    /\ ticks' = ticks + 1
    /\ UNCHANGED <<files, dirs, faults, snapDir, tz, events, filesChanged, cap, cap2, rst, issued, ops, api, live, watching, webview, diffPanel, extension>>

\* onFileChanged does not await createSnapshotForFile: the watcher delivers
\* event e while the createSnapshot call of an earlier event is in flight,
\* and a second createSnapshot call starts
OnFileChangedBehind(e) ==
    /\ e \in events
    /\ cap.pc # "idle"
    /\ cap2.pc = "idle"
    /\ events' = events \ {e}
    /\ IF shouldIgnoreFile(RelativePath(e))
       THEN UNCHANGED <<filesChanged, cap2>>
       ELSE /\ filesChanged' = filesChanged + 1
            /\ cap2' = IF Captures(e.kind)
                       THEN [CapIdle EXCEPT !.pc = "read", !.caller = "watcher", !.path = e.path,
                                            !.trigger = TriggerOf(e.kind), !.event = e]
                       ELSE cap2
    /\ UNCHANGED <<files, dirs, faults, snapDir, now, tz, cap, rst, issued, ops, ticks, api, live, watching, webview, diffPanel, extension>>

\* the watcher delivers event e when no createSnapshot call is in flight
OnFileChangedFirst(e) == cap2.pc = "idle" /\ OnFileChanged(e)

\* the second createSnapshot call: readFile resolves, or rejects (null)
SecondRead ==
    /\ cap2.pc = "read"
    /\ cap2' = IF Readable(cap2.path)
               THEN [cap2 EXCEPT !.pc = "stat", !.content = files[cap2.path]]
               ELSE CapIdle
    /\ UNCHANGED <<files, dirs, faults, snapDir, now, tz, events, filesChanged, cap, rst, issued, ops, ticks, api, live, watching, webview, diffPanel, extension>>

\* the second createSnapshot call: stat resolves (or rejects: null) and the
\* snapshot object is built
SecondStat ==
    /\ cap2.pc = "stat"
    /\ IF Readable(cap2.path)
       THEN \E r \in RandomSuffixes :
              LET id == generateSnapshotId(now, tz, r)
                  fileSnapshot == FileSnapshot(cap2.path, cap2.content, Size(files[cap2.path]))
              IN  /\ cap2' = [cap2 EXCEPT !.pc = "save",
                                          !.snapshot = Snapshot(id, DateAt(now), cap2.trigger, <<fileSnapshot>>)]
                  /\ issued' = Issue(issued, now, id)
       ELSE /\ cap2' = CapIdle
            /\ UNCHANGED issued
    /\ UNCHANGED <<files, dirs, faults, snapDir, now, tz, events, filesChanged, cap, rst, ops, ticks, api, live, watching, webview, diffPanel, extension>>

\* the second createSnapshot call: the record's writeFile settles
SecondSave ==
    /\ cap2.pc = "save"
    /\ snapDir' = WriteRecord(snapDir, cap2.snapshot)
    /\ cap2' = CapIdle
    /\ api' = [api EXCEPT !.last = Null]
    /\ live' = Persisted(live, cap2.snapshot.id)
    /\ events' = events \cup Raised(RecordWritten(snapDir, cap2.snapshot.id))
    /\ UNCHANGED <<files, dirs, faults, now, tz, filesChanged, cap, rst, issued, ops, ticks, watching, webview, diffPanel, extension>>

\* one turn of the backup loop, first await: readFile of the next file
\* resolves, or rejects and the file is skipped
RestoreReadFile ==
    /\ rst.pc = "read"
    /\ rst.at <= Len(rst.allFiles)
    /\ rst' = IF Readable(rst.allFiles[rst.at])
              THEN [rst EXCEPT !.pc = "stat", !.read = files[rst.allFiles[rst.at]]]
              ELSE [rst EXCEPT !.at = @ + 1]
    /\ UNCHANGED <<files, dirs, faults, snapDir, now, tz, events, filesChanged, cap, cap2, issued, ops, ticks, api, live, watching, webview, diffPanel, extension>>

\* one turn of the backup loop, second await: stat resolves and the capture
\* is pushed, or rejects and the file is skipped
RestoreStat ==
    /\ rst.pc = "stat"
    /\ LET p == rst.allFiles[rst.at]
       IN  rst' = IF Readable(p)
                  THEN [rst EXCEPT !.pc = "read", !.at = @ + 1, !.read = "",
                                   !.fileSnapshots = Append(@, FileSnapshot(p, rst.read, Size(files[p])))]
                  ELSE [rst EXCEPT !.pc = "read", !.at = @ + 1, !.read = ""]
    /\ UNCHANGED <<files, dirs, faults, snapDir, now, tz, events, filesChanged, cap, cap2, issued, ops, ticks, api, live, watching, webview, diffPanel, extension>>

\* the watcher's createSnapshot calls, the editor's saves between them and
\* behind them
NextRace ==
    \/ \E c \in Contents : EditorSave("a.ts", c)
    \/ SaveBehind("a.ts", Draft)
    \/ TickBehind
    \/ \E e \in events : OnFileChangedFirst(e)
    \/ \E e \in events : OnFileChangedBehind(e)
    \/ CaptureRead
    \/ CaptureStat
    \/ CaptureSave
    \/ SecondRead
    \/ SecondStat
    \/ SecondSave

InitRace == Init /\ tz = 0 /\ WatchingFiles /\ faults = NoFault

SpecRace == InitRace /\ [][NextRace]_vars

\* a restore of the full backup, the editor's saves behind it and the
\* watcher's createSnapshot calls
NextRestoreRace ==
    \/ SaveBehind("a.ts", Draft)
    \/ \E e \in events : OnFileChanged(e)
    \/ CaptureRead
    \/ CaptureStat
    \/ CaptureSave
    \/ RestoreCall(FullBackupId(tz))
    \/ RestoreLoad
    \/ RestoreWalk
    \/ RestoreReadFile
    \/ RestoreStat
    \/ RestoreSave
    \/ RestoreWrite
    \/ RestoreReturn

SpecRestoreRace == InitRace /\ [][NextRestoreRace]_vars


----------------------------------------------------------------------------
(* Properties of the interleavings *)

\* the records of the snapshots directory that parse
Records == { n \in DOMAIN snapDir : snapDir[n] # Garbage }

\* some persisted record holds content c for path p, or a createSnapshot
\* call in flight has read c from p and is about to persist it
Held(p, c) ==
    \/ \E n \in Records : \E i \in DOMAIN snapDir[n].files :
          snapDir[n].files[i].path = p /\ snapDir[n].files[i].content = c
    \/ cap.pc \in {"stat", "save"} /\ cap.path = p /\ cap.content = c

\* the restore loop writes a file in this step
RestoreWrites == rst.pc = "write" /\ rst'.pc = "write" /\ rst'.idx = rst.idx + 1

\* C35: whenever the restore loop overwrites a file, the content it replaces
\* is held by a persisted record (the restore's backup among them) or by a
\* capture that has read it, also when the editor saved the file after the
\* backup loop read it
C35_ReplacedContentIsHeld ==
    [][\A p \in Paths :
          (RestoreWrites /\ files[p] # NoFile /\ files'[p] # files[p]) =>
              Held(p, files[p])]_vars

\* C36: when the createSnapshot calls of two events for the same file,
\* delivered one after the other, have both built their snapshot, the
\* snapshot of the earlier event is stamped no later than the snapshot of
\* the later event
C36_StampsFollowDelivery ==
    (cap.pc = "save" /\ cap2.pc = "save" /\ cap.path = cap2.path) =>
        cap.snapshot.timestamp[1] <= cap2.snapshot.timestamp[1]

\* C37: in every persisted record, the size of each FileSnapshot is the size
\* of the content it holds
C37_SizeDescribesContent ==
    \A n \in Records : \A i \in DOMAIN snapDir[n].files :
        snapDir[n].files[i].size = Size(snapDir[n].files[i].content)


----------------------------------------------------------------------------
(* TimelinePanel.restoreSnapshot *)

\* what showWarningMessage(message, { modal: true }, 'Restore', 'Cancel')
\* resolves to: the button chosen, or undefined when the dialog is dismissed
Choices == {"Restore", "Cancel", "undefined"}

\* a handler that goes on unless the user chose 'Cancel'
ConfirmedUnlessCancelled(choice) == choice # "Cancel"

\* the negation of: if (choice !== 'Restore') return
Confirmed(choice) == choice = "Restore"

\* what the handler has shown, or been answered, when it returns early
ShownError(message) == [kind |-> "error", message |-> message]
Answered(choice) == [kind |-> "choice", value |-> choice]

\* the webview posts { command: 'restoreSnapshot', snapshotId: id }: the
\* handler calls loadSnapshot
PanelRestore(id) ==
    /\ ops < MaxOps
    /\ Quiet
    /\ api.pc \in {"idle", "done"}
    /\ api' = [Call("TimelinePanel.restoreSnapshot", id) EXCEPT !.pc = "load"]
    /\ rst' = RstIdle
    /\ ops' = ops + 1
    /\ UNCHANGED <<files, dirs, faults, snapDir, now, tz, events, filesChanged, cap, cap2, issued, ticks, live, watching, webview, diffPanel, extension>>

\* loadSnapshot resolves: the handler shows 'Snapshot not found' and
\* returns, or opens the confirmation dialog
PanelLoad ==
    /\ api.op = "TimelinePanel.restoreSnapshot"
    /\ api.pc = "load"
    /\ api' = IF loadSnapshot(snapDir, api.arg) = Null
              THEN [api EXCEPT !.pc = "done", !.result = ShownError("Snapshot not found")]
              ELSE [api EXCEPT !.pc = "confirm"]
    /\ UNCHANGED <<files, dirs, faults, snapDir, now, tz, events, filesChanged, cap, cap2, rst, issued, ops, ticks, live, watching, webview, diffPanel, extension>>

\* the dialog resolves with choice: the handler returns, or calls
\* this._snapshotManager.restoreSnapshot(snapshotId) under withProgress
PanelChoose(choice) ==
    /\ api.op = "TimelinePanel.restoreSnapshot"
    /\ api.pc = "confirm"
    /\ IF Confirmed(choice)
       THEN /\ api' = [api EXCEPT !.pc = "restoring", !.result = Answered(choice)]
            /\ rst' = [RstIdle EXCEPT !.pc = "load", !.target = api.arg,
                                      !.pre = [files |-> files, dirs |-> dirs, store |-> snapDir]]
       ELSE /\ api' = [api EXCEPT !.pc = "done", !.result = Answered(choice)]
            /\ UNCHANGED rst
    /\ UNCHANGED <<files, dirs, faults, snapDir, now, tz, events, filesChanged, cap, cap2, issued, ops, ticks, live, watching, webview, diffPanel, extension>>

\* restoreSnapshot has resolved: the handler shows its outcome
PanelDone ==
    /\ api.op = "TimelinePanel.restoreSnapshot"
    /\ api.pc = "restoring"
    /\ rst.pc = "done"
    /\ api' = [api EXCEPT !.pc = "done", !.result = rst.result]
    /\ UNCHANGED <<files, dirs, faults, snapDir, now, tz, events, filesChanged, cap, cap2, rst, issued, ops, ticks, live, watching, webview, diffPanel, extension>>

\* the user's saves between the handler's runs, the timeline's restore
\* requests and the calls they make, with the watcher stopped
NextPanel ==
    \/ \E c \in Contents : api.pc \in {"idle", "done"} /\ EditorSave("a.ts", c)
    \/ \E id \in Requestable : PanelRestore(id)
    \/ PanelLoad
    \/ \E choice \in Choices : PanelChoose(choice)
    \/ PanelDone
    \/ RestoreLoad
    \/ RestoreWalk
    \/ RestoreRead
    \/ RestoreSave
    \/ RestoreWrite
    \/ RestoreReturn

InitPanel ==
    /\ files = [p \in Paths |-> IF p \in {"yarn.lock", "tsconfig.json"} THEN NoFile ELSE "x"]
    /\ dirs = {"src", "dist", atlasDir, snapshotsDir}
    /\ faults \in FaultPlans
    /\ now = StartInstant
    /\ tz = 0
    /\ snapDir = EarlierStore(tz)
    /\ watching = {}
    /\ events = {}
    /\ filesChanged = 0
    /\ cap = CapIdle
    /\ cap2 = CapIdle
    /\ webview = WebviewLoaded
    /\ diffPanel = NoDiffPanel
    /\ extension = Activated(TRUE)
    /\ rst = RstIdle
    /\ issued = [k \in {} |-> 0]
    /\ ops = 0
    /\ ticks = 0
    /\ api = ApiIdle
    /\ live = {GarbageId(tz), EmptyBackupId(tz), FullBackupId(tz)}

SpecPanel == InitPanel /\ [][NextPanel]_vars

\* the handler of the timeline's restore request is running, or has returned
InHandler == api.op = "TimelinePanel.restoreSnapshot"

\* SnapshotManager.restoreSnapshot is called in this step
RestoreStarts == rst.pc # "load" /\ rst'.pc = "load"

\* the handler has returned without the user's 'Restore'
Declined ==
    /\ InHandler
    /\ api.pc = "done"
    /\ api.result.kind \in {"error", "choice"}

\* C38: restoreSnapshot is called only by the step in which the confirmation
\* dialog for that snapshot resolves with 'Restore'; until then the handler
\* leaves the workspace and the snapshots directory as they are, and when it
\* has returned on 'Cancel', on a dismissal or because the snapshot did not
\* load, no restore has run: no backup record and no file was written
C38_RestoreOnlyOnConfirmation ==
    [][/\ RestoreStarts =>
             /\ InHandler
             /\ api.pc = "confirm"
             /\ api'.result = Answered("Restore")
             /\ rst'.target = api.arg
       /\ (InHandler /\ api.pc \in {"load", "confirm"}) =>
             /\ files' = files
             /\ dirs' = dirs
             /\ snapDir' = snapDir
       /\ Declined' =>
             /\ rst'.pc = "idle"
             /\ rst'.puts = 0]_vars

\* C38 witness: the user chose 'Restore', the restore ran and succeeded
\* with its backup written
C38_Witness ==
    /\ InHandler
    /\ api.pc = "done"
    /\ api.result.kind = "outcome"
    /\ api.result.success
    /\ rst.puts = 1


----------------------------------------------------------------------------
(* The timeline's webview script *)

\* the user's clicks and toggles explored
MaxClicks == 5

\* the snapshots the timeline lists
Listed == {EmptyBackupId(0), FullBackupId(0)}

\* !value, for an identifier or null
Not(value) == value = <<>>

\* the messages the script posts
CompareDiffMessage(old, new) ==
    [command |-> "compareDiff", oldSnapshotId |-> old, newSnapshotId |-> new]
ViewSnapshotMessage(id) == [command |-> "viewSnapshot", snapshotId |-> id]

\* renderTimeline: compareLabel of the card of snapshot id
compareLabel(w, id) ==
    IF w.compareMode /\ w.compareSnapshots.old = id THEN "OLD"
    ELSE IF w.compareMode /\ w.compareSnapshots.new = id THEN "NEW"
    ELSE ""

\* renderTimeline: the cards that carry a compare-badge, with its text
renderTimeline(w) ==
    { <<id, compareLabel(w, id)>> : id \in { i \in Listed : compareLabel(w, i) # "" } }

\* a toggle that keeps the selection
toggleCompareModeKeeping(w) ==
    LET toggled == [w EXCEPT !.compareMode = ~w.compareMode]
    IN  [toggled EXCEPT !.badges = renderTimeline(toggled)]

\* toggleCompareMode(): both branches reset compareSnapshots
toggleCompareMode(w) ==
    LET toggled == [w EXCEPT !.compareMode = ~w.compareMode,
                             !.compareSnapshots = [old |-> <<>>, new |-> <<>>]]
    IN  [toggled EXCEPT !.badges = renderTimeline(toggled)]

\* selectSnapshot(snapshotId)
selectSnapshot(w, snapshotId) ==
    LET selected ==
          IF w.compareMode
          THEN IF Not(w.compareSnapshots.old)
               THEN [w EXCEPT !.compareSnapshots.old = snapshotId]
               ELSE IF Not(w.compareSnapshots.new)
               THEN [w EXCEPT !.posted = Append(@, CompareDiffMessage(w.compareSnapshots.old, snapshotId)),
                              !.compareSnapshots = [old |-> <<>>, new |-> <<>>]]
               ELSE [w EXCEPT !.compareSnapshots = [old |-> snapshotId, new |-> <<>>]]
          ELSE [w EXCEPT !.selectedSnapshotId = snapshotId,
                         !.posted = Append(@, ViewSnapshotMessage(snapshotId))]
    IN  [selected EXCEPT !.badges = renderTimeline(selected)]

\* the user clicks the Compare Mode button
ToggleCompareMode ==
    /\ webview.commands < MaxClicks
    /\ webview' = [toggleCompareMode(webview) EXCEPT !.clicks = <<>>, !.nth = 0, !.clicked = <<>>,
                                                     !.commands = @ + 1]
    /\ UNCHANGED <<files, dirs, faults, snapDir, now, tz, watching, events, filesChanged, cap, cap2, rst, issued, ops, ticks, api, live, diffPanel, extension>>

\* the user clicks the card of snapshot id
SelectSnapshot(id) ==
    /\ webview.commands < MaxClicks
    /\ webview' = [selectSnapshot(webview, id) EXCEPT
                      !.clicks = IF ~webview.compareMode \/ Len(@) = 1 THEN <<>> ELSE <<id>>,
                      !.nth = IF webview.compareMode THEN Len(webview.clicks) + 1 ELSE 0,
                      !.clicked = id,
                      !.commands = @ + 1]
    /\ UNCHANGED <<files, dirs, faults, snapDir, now, tz, watching, events, filesChanged, cap, cap2, rst, issued, ops, ticks, api, live, diffPanel, extension>>

NextTimeline ==
    \/ ToggleCompareMode
    \/ \E id \in Listed : SelectSnapshot(id)

InitTimeline == InitPanel /\ faults = NoFault

SpecTimeline == InitTimeline /\ [][NextTimeline]_vars

\* the messages posted in this step
Posts == SubSeq(webview'.posted, Len(webview.posted) + 1, Len(webview'.posted))

\* C31: a compareDiff message is posted exactly in the step of the second
\* click in compare mode since the mode was entered or the previous
\* comparison was asked for, one message, which names the first clicked
\* snapshot as old and the second as new; a click outside compare mode posts
\* no compareDiff, and a toggle of the mode posts nothing and discards the
\* pending first selection, so that the next click is a first click again
C31_CompareOnSecondClick ==
    [][/\ Len(Posts) <= 1
       /\ (\E i \in DOMAIN Posts : Posts[i].command = "compareDiff") <=>
              (webview.compareMode /\ webview'.nth = 2)
       /\ webview'.nth = 2 =>
              Posts = <<CompareDiffMessage(webview.clicks[1], webview'.clicked)>>
       /\ webview'.compareMode # webview.compareMode =>
              /\ Posts = <<>>
              /\ webview'.compareSnapshots = [old |-> <<>>, new |-> <<>>]
       /\ (webview'.compareMode /\ webview'.clicks = <<>>) =>
              Not(webview'.compareSnapshots.old)]_vars

\* C31 witness: two comparisons were asked for in compare mode, the second
\* of two different snapshots
C31_Witness ==
    /\ webview.compareMode
    /\ Len(webview.posted) = 2
    /\ webview.posted[2] = CompareDiffMessage(EmptyBackupId(0), FullBackupId(0))
    /\ webview.posted[1].command = "compareDiff"

\* C32, first half: after the first click in compare mode the timeline is
\* rendered with the clicked snapshot marked OLD
C32_FirstClickRendersOld ==
    webview.nth = 1 => <<webview.clicked, "OLD">> \in webview.badges

\* C32: after the second click in compare mode the timeline is rendered with
\* the second snapshot marked NEW
C32_SecondClickRendersNew ==
    webview.nth = 2 => <<webview.clicked, "NEW">> \in webview.badges


----------------------------------------------------------------------------
(* DiffViewer.createOrShow and showDiff *)

\* the showDiff requests explored
MaxRequests == 2

\* the identifiers a comparison is asked for
Comparable == Listed \cup {MissingId}

\* showDiff(oldSnapshotId, newSnapshotId) is called on the panel: its first
\* loadSnapshot is pending.  n is the rank of the request
ShowDiffTask(n, old, new) ==
    [n |-> n, oldSnapshotId |-> old, newSnapshotId |-> new, pc |-> "old",
     oldSnapshot |-> Null, newSnapshot |-> Null]

\* the panel with one more showDiff call in flight
Requested(panel, old, new) ==
    [panel EXCEPT !.open = TRUE, !.requests = @ + 1,
                  !.tasks = Append(@, ShowDiffTask(panel.requests + 1, old, new))]

\* DiffViewer.createOrShow(extensionUri, snapshotManager, old, new): the
\* current panel is revealed and its showDiff called, or a panel is created
\* and its constructor calls showDiff
CreateOrShow(old, new) ==
    /\ diffPanel.requests < MaxRequests
    /\ diffPanel' = Requested(diffPanel, old, new)
    /\ UNCHANGED <<files, dirs, faults, snapDir, now, tz, watching, events, filesChanged, cap, cap2, rst, issued, ops, ticks, api, live, webview, extension>>

\* the panel's webview posts { command: 'showDiff', ... }: the handler
\* calls showDiff
ShowDiffMessage(old, new) ==
    /\ diffPanel.open
    /\ diffPanel.requests < MaxRequests
    /\ diffPanel' = Requested(diffPanel, old, new)
    /\ UNCHANGED <<files, dirs, faults, snapDir, now, tz, watching, events, filesChanged, cap, cap2, rst, issued, ops, ticks, api, live, webview, extension>>

\* showDiff call i: await loadSnapshot(oldSnapshotId) resolves, and
\* loadSnapshot(newSnapshotId) is called
ShowDiffLoadOld(i) ==
    /\ diffPanel.tasks[i].pc = "old"
    /\ diffPanel' = [diffPanel EXCEPT
                        !.tasks[i].pc = "new",
                        !.tasks[i].oldSnapshot = loadSnapshot(snapDir, diffPanel.tasks[i].oldSnapshotId)]
    /\ UNCHANGED <<files, dirs, faults, snapDir, now, tz, watching, events, filesChanged, cap, cap2, rst, issued, ops, ticks, api, live, webview, extension>>

\* showDiff call i: await loadSnapshot(newSnapshotId) resolves; an error is
\* shown if a snapshot is missing, or else this._panel.webview.html =
\* this._getHtmlForDiff(oldSnapshot, newSnapshot): the page of the two
\* snapshots is assigned to the panel
ShowDiffLoadNew(i) ==
    /\ diffPanel.tasks[i].pc = "new"
    /\ LET task == diffPanel.tasks[i]
           oldSnapshot == task.oldSnapshot
           newSnapshot == loadSnapshot(snapDir, task.newSnapshotId)
           page == [old |-> oldSnapshot, new |-> newSnapshot]
       IN  diffPanel' = [diffPanel EXCEPT
                            !.tasks[i].pc = "done",
                            !.tasks[i].newSnapshot = newSnapshot,
                            !.html = IF oldSnapshot = Null \/ newSnapshot = Null
                                     THEN @
                                     ELSE page]
    /\ UNCHANGED <<files, dirs, faults, snapDir, now, tz, watching, events, filesChanged, cap, cap2, rst, issued, ops, ticks, api, live, webview, extension>>

NextViewer ==
    \/ \E old \in Comparable, new \in Comparable : CreateOrShow(old, new)
    \/ \E old \in Comparable, new \in Comparable : ShowDiffMessage(old, new)
    \/ \E i \in DOMAIN diffPanel.tasks : ShowDiffLoadOld(i)
    \/ \E i \in DOMAIN diffPanel.tasks : ShowDiffLoadNew(i)

SpecViewer == InitTimeline /\ [][NextViewer]_vars

\* every showDiff call has returned
ViewerAtRest == \A i \in DOMAIN diffPanel.tasks : diffPanel.tasks[i].pc = "done"

\* C39: when every showDiff call has returned and both snapshots of the most
\* recent request loaded, the panel displays the diff of the most recent
\* request
C39_LatestRequestDisplayed ==
    (ViewerAtRest /\ diffPanel.requests > 0) =>
        LET latest == diffPanel.tasks[diffPanel.requests]
        IN  (latest.oldSnapshot # Null /\ latest.newSnapshot # Null) =>
                diffPanel.html = [old |-> latest.oldSnapshot, new |-> latest.newSnapshot]


----------------------------------------------------------------------------
(* The extension's commands *)

\* the commands explored
MaxCommands == 3

\* the extension after command has shown message
Ran(ext, command, message) ==
    [ext EXCEPT !.command = command, !.message = message, !.listed = 0, !.commands = @ + 1]

\* the host's workspace gets its first folder while the extension is
\* active: vscode.workspace.workspaceFolders is read anew by each command
OpenFolder ==
    /\ ~extension.workspaceFolder
    /\ extension' = [extension EXCEPT !.workspaceFolder = TRUE]
    /\ UNCHANGED <<files, dirs, faults, snapDir, now, tz, watching, events, filesChanged, cap, cap2, rst, issued, ops, ticks, api, live, webview, diffPanel>>

\* atlas.startWatching
StartWatching ==
    /\ extension.commands < MaxCommands
    /\ IF extension.fileWatcher
       THEN /\ extension' = Ran(extension, "atlas.startWatching", "Atlas is already watching files!")
            /\ UNCHANGED <<watching, filesChanged>>
       ELSE IF ~extension.workspaceFolder
       THEN /\ extension' = Ran(extension, "atlas.startWatching", "No workspace folder open. Please open a folder first.")
            /\ UNCHANGED <<watching, filesChanged>>
       ELSE /\ extension' = [Ran(extension, "atlas.startWatching", "Atlas started watching files!")
                               EXCEPT !.fileWatcher = TRUE]
            /\ watching' = {"files"}
            /\ filesChanged' = 0
    /\ UNCHANGED <<files, dirs, faults, snapDir, now, tz, events, cap, cap2, rst, issued, ops, ticks, api, live, webview, diffPanel>>

\* atlas.stopWatching: stop() disposes of the host's watcher
StopWatching ==
    /\ extension.commands < MaxCommands
    /\ IF ~extension.fileWatcher
       THEN /\ extension' = Ran(extension, "atlas.stopWatching", "Atlas is not currently watching files.")
            /\ UNCHANGED <<watching, events>>
       ELSE /\ extension' = [Ran(extension, "atlas.stopWatching", "Atlas stopped watching files.")
                               EXCEPT !.fileWatcher = FALSE]
            /\ watching' = {}
            /\ events' = {}
    /\ UNCHANGED <<files, dirs, faults, snapDir, now, tz, filesChanged, cap, cap2, rst, issued, ops, ticks, api, live, webview, diffPanel>>

\* the negation of: if (!snapshotManager)
Initialized(ext) == ext.snapshotManager

\* atlas.listSnapshots: 'not initialized', or getAllSnapshots and then 'No
\* snapshots yet' or the quick pick of the snapshots
ListSnapshots ==
    /\ extension.commands < MaxCommands
    /\ cap.pc = "idle"
    /\ IF ~Initialized(extension)
       THEN extension' = Ran(extension, "atlas.listSnapshots", "Atlas is not initialized.")
       ELSE \E readdir \in Readdir(snapDir) :
              LET snapshots == getAllSnapshots(snapDir, readdir).value
              IN  extension' =
                    IF Len(snapshots) = 0
                    THEN Ran(extension, "atlas.listSnapshots", "No snapshots yet. Edit some files to create snapshots!")
                    ELSE [Ran(extension, "atlas.listSnapshots", "Select a snapshot to view details")
                            EXCEPT !.listed = Len(snapshots)]
    /\ UNCHANGED <<files, dirs, faults, snapDir, now, tz, watching, events, filesChanged, cap, cap2, rst, issued, ops, ticks, api, live, webview, diffPanel>>

\* the host's workspace, the user's commands and saves, and the watcher
NextExtension ==
    \/ OpenFolder
    \/ StartWatching
    \/ StopWatching
    \/ ListSnapshots
    \/ \E c \in Contents : extension.workspaceFolder /\ EditorSave("a.ts", c)
    \/ \E e \in events : OnFileChanged(e)
    \/ CaptureRead
    \/ CaptureStat
    \/ CaptureSave

\* activate(), in a window with a workspace folder or without one
InitExtension ==
    /\ files = [p \in Paths |-> IF p \in {"yarn.lock", "tsconfig.json"} THEN NoFile ELSE "x"]
    /\ dirs = {"src", "dist", atlasDir, snapshotsDir}
    /\ faults = NoFault
    /\ now = StartInstant
    /\ tz = 0
    /\ snapDir = EarlierStore(tz)
    /\ extension \in {Activated(TRUE), Activated(FALSE)}
    /\ watching = IF extension.fileWatcher THEN {"files"} ELSE {}
    /\ events = {}
    /\ filesChanged = 0
    /\ cap = CapIdle
    /\ cap2 = CapIdle
    /\ rst = RstIdle
    /\ issued = [k \in {} |-> 0]
    /\ ops = 0
    /\ ticks = 0
    /\ api = ApiIdle
    /\ live = {GarbageId(tz), EmptyBackupId(tz), FullBackupId(tz)}
    /\ webview = WebviewLoaded
    /\ diffPanel = NoDiffPanel

SpecExtension == InitExtension /\ [][NextExtension]_vars

\* C40: whenever fileWatcher is set and the latest command was
\* atlas.listSnapshots, the command did not report 'not initialized': it
\* listed the stored snapshots
C40_ListsWhileWatching ==
    (extension.fileWatcher /\ extension.command = "atlas.listSnapshots") =>
        /\ extension.message # "Atlas is not initialized."
        /\ extension.listed > 0

============================================================================
